------------------------ MODULE ClassificacaoProofs ------------------------
(* The score of a guess, and what the pages of Classificacao promise, for   *)
(* any number of players, games, guesses and rows per page.                 *)
EXTENDS MCServidor, FiniteSetTheorems, FunctionTheorems, TLAPS

-----------------------------------------------------------------------------
(* The score of a guess.                                                    *)

\* The function of the code and the table of the rules agree on every pair of
\* scores (mod.rs:15-25 against regras.html:22-24).
THEOREM PontosConformeRegra ==
  ASSUME NEW p \in Nat \X Nat, NEW r \in Nat \X Nat
  PROVE  CalcularPontos(p, r) = PontosDaRegra(p, r)
<1>1. /\ p = <<p[1], p[2]>> /\ p[1] \in Int /\ p[2] \in Int
      /\ r = <<r[1], r[2]>> /\ r[1] \in Int /\ r[2] \in Int
  OBVIOUS
<1>2. p = r <=> p[1] = r[1] /\ p[2] = r[2]
  BY <1>1
<1> QED
  BY <1>1, <1>2 DEF CalcularPontos, Vencedor, PontosDaRegra

\* A guess is worth 0, 5 or 10 points, and 10 only for the very score: the
\* promotion of a coupon at 10 points (admin.rs:193) rewards exact guesses only.
THEOREM PontosPossiveis ==
  ASSUME NEW p \in Nat \X Nat, NEW r \in Nat \X Nat
  PROVE  /\ CalcularPontos(p, r) \in {0, 5, 10}
         /\ CalcularPontos(p, r) = 10 <=> p = r
BY DEF CalcularPontos

\* A match without a winner pays only the exact score (mod.rs:12-14).
THEOREM EmpateSoNoExato ==
  ASSUME NEW p \in Nat \X Nat, NEW g \in Nat, p # <<g, g>>
  PROVE  CalcularPontos(p, <<g, g>>) = 0
<1>1. <<g, g>>[1] = g /\ <<g, g>>[2] = g
  OBVIOUS
<1> QED
  BY <1>1 DEF CalcularPontos, Vencedor

\* Swapping the sides of guess and score changes no points.
THEOREM LadosIguais ==
  ASSUME NEW p \in Nat \X Nat, NEW r \in Nat \X Nat
  PROVE  CalcularPontos(<<p[2], p[1]>>, <<r[2], r[1]>>) = CalcularPontos(p, r)
<1>1. /\ p = <<p[1], p[2]>> /\ p[1] \in Int /\ p[2] \in Int
      /\ r = <<r[1], r[2]>> /\ r[1] \in Int /\ r[2] \in Int
  OBVIOUS
<1>2. <<p[2], p[1]>> = <<r[2], r[1]>> <=> p = r
  BY <1>1
<1> QED
  BY <1>1, <1>2 DEF CalcularPontos, Vencedor

\* The scores of an instance.
PlacaresPequenos ==
  /\ palpite \in (0..Limite) \X (0..Limite)
  /\ resultado \in (0..Limite) \X (0..Limite)

LEMMA PlacaresSempre == MCSpec => []PlacaresPequenos
<1>1. MCInit => PlacaresPequenos
  BY LimiteAssumption DEF MCInit, PlacaresPequenos
<1>2. PlacaresPequenos /\ [MCNext]_MCvars => PlacaresPequenos'
  <2> SUFFICES ASSUME PlacaresPequenos, [MCNext]_MCvars PROVE PlacaresPequenos'
    OBVIOUS
  <2>1. /\ palpite' = palpite
        /\ \/ resultado' = resultado
           \/ GolA \/ GolB \/ AnulaA \/ AnulaB
    BY DEF MCNext, MCvars, NasRegras, NosJogos, NosNomes, NoLimitador, daRegra
  <2>2. resultado[1] \in 0..Limite /\ resultado[2] \in 0..Limite
    BY DEF PlacaresPequenos
  <2> QED
    BY <2>1, <2>2, LimiteAssumption DEF PlacaresPequenos, GolA, GolB, AnulaA, AnulaB
<1> QED
  BY <1>1, <1>2, PTL DEF MCSpec

\* While a score is announced and corrected goal by goal, up to any number of
\* goals, the code and the rules agree (mod.rs:15-25).
THEOREM SempreConformeRegra == MCSpec => []ConformeRegra
<1>1. PlacaresPequenos => ConformeRegra
  <2> SUFFICES ASSUME PlacaresPequenos PROVE ConformeRegra
    OBVIOUS
  <2>1. palpite \in Nat \X Nat /\ resultado \in Nat \X Nat
    BY LimiteAssumption DEF PlacaresPequenos
  <2> QED
    BY <2>1, PontosConformeRegra DEF ConformeRegra, Pontos
<1> QED
  BY <1>1, PlacaresSempre, PTL

\* A correction by one goal that keeps the winner moves no points but those of
\* an exact guess (mod.rs:15-25).
THEOREM CorrecaoSoMudaExatos == MCSpec => CorrecaoDeUmGol
<1> DEFINE Muda == Vencedor(resultado[1], resultado[2]) = Vencedor(resultado'[1], resultado'[2])
                     => Pontos = Pontos' \/ 10 \in {Pontos, Pontos'}
<1>1. [MCNext]_MCvars => [Muda]_MCvars
  <2> SUFFICES ASSUME MCNext PROVE Muda
    OBVIOUS
  <2>1. palpite' = palpite
    BY DEF MCNext, NasRegras, NosJogos, NosNomes, NoLimitador, daRegra
  <2>2. Vencedor(resultado'[1], resultado'[2]) = Vencedor(resultado[1], resultado[2])'
    BY DEF Vencedor
  <2> QED
    BY <2>1, <2>2 DEF CalcularPontos, Pontos
<1> QED
  BY <1>1, PTL DEF CorrecaoDeUmGol, MCSpec

\* The instance takes only steps of the pages: what is proved of `Spec` holds
\* in it.
THEOREM InstanciaImplementa == MCSpec => Spec
<1>1. MCInit => Init
  BY DEF MCInit
<1>2. [MCNext]_MCvars => [Next]_vars
  BY DEF MCNext, MCvars, NasRegras, NosJogos, NosNomes, NoLimitador, vars, tabelas
<1> QED
  BY <1>1, <1>2, PTL DEF MCSpec, Spec

-----------------------------------------------------------------------------
(* Natural numbers and finite sets of them.                                 *)

\* The least-number principle, for a set in place of a predicate: what replaces
\* induction below.
LEMMA MenorNatural ==
  ASSUME NEW T \in SUBSET Nat, T # {}
  PROVE  \E x \in T : \A y \in T : x <= y
<1>1. \E x \in T : \A y \in T : ~(<<y, x>> \in OpToRel(<, Nat))
  BY NatLessThanWellFounded, WFMin
<1>2. PICK x \in T : \A y \in T : <<y, x>> \notin {ss \in Nat \X Nat : ss[1] < ss[2]}
  BY <1>1, Zenon DEF OpToRel
<1>3. \A y \in T : ~(y < x)
  BY <1>2
<1> QED
  BY <1>3

LEMMA MinimoDeNaturais ==
  ASSUME NEW T \in SUBSET Nat, T # {}
  PROVE  /\ Min(T) \in T
         /\ \A y \in T : Min(T) <= y
BY MenorNatural DEF Min

\* A set of natural numbers with a bound has a maximum.
LEMMA MaximoLimitado ==
  ASSUME NEW T \in SUBSET Nat, T # {}, NEW b \in Nat, \A y \in T : y <= b
  PROVE  /\ Max(T) \in T
         /\ \A y \in T : Max(T) >= y
<1> DEFINE cotas == {c \in Nat : \A y \in T : y <= c}
<1>1. PICK c \in cotas : \A d \in cotas : c <= d
  BY MenorNatural
<1>2. c \in T
  <2>1. SUFFICES ASSUME c \notin T PROVE FALSE
    OBVIOUS
  <2>2. PICK y \in T : TRUE
    OBVIOUS
  <2>3. \A z \in T : z <= c - 1
    BY <2>1, <1>1
  <2>4. c - 1 \in cotas
    BY <2>2, <2>3
  <2> QED
    BY <2>4, <1>1
<1>3. \E x \in T : \A y \in T : x >= y
  BY <1>1, <1>2
<1> QED
  BY <1>3 DEF Max

\* Finite sets of natural numbers have a bound.
LEMMA FinitoLimitado ==
  ASSUME NEW S \in SUBSET Nat, IsFiniteSet(S)
  PROVE  \E b \in Nat : \A x \in S : x <= b
<1> DEFINE Limitada(n) == \A g \in [1..n -> Nat] : \E b \in Nat : \A k \in 1..n : g[k] <= b
           ruins == {n \in Nat : ~Limitada(n)}
<1>1. ASSUME NEW n \in Nat PROVE Limitada(n)
  <2>1. SUFFICES ASSUME ruins # {} PROVE FALSE
    OBVIOUS
  <2>2. PICK m \in Nat : ~Limitada(m) /\ \A i \in Nat : ~Limitada(i) => m <= i
    <3> HIDE DEF Limitada
    <3> QED
      BY <2>1, MenorNatural
  <2>3. PICK g \in [1..m -> Nat] : \A b \in Nat : ~\A k \in 1..m : g[k] <= b
    BY <2>2
  <2>4. m # 0
    BY <2>3
  <2>5. m - 1 \in Nat /\ Limitada(m - 1)
    <3>1. m - 1 \in Nat /\ ~(m <= m - 1)
      BY <2>4
    <3> HIDE DEF Limitada
    <3> QED
      BY <2>2, <3>1
  <2>6. [k \in 1..(m - 1) |-> g[k]] \in [1..(m - 1) -> Nat]
    BY <2>5
  <2>7. PICK b \in Nat : \A k \in 1..(m - 1) : g[k] <= b
    BY <2>5, <2>6
  <2>8. g[m] \in Nat
    BY <2>4
  <2>9. \A k \in 1..m : g[k] <= b + g[m]
    <3> SUFFICES ASSUME NEW k \in 1..m PROVE g[k] <= b + g[m]
      OBVIOUS
    <3>1. CASE k = m
      BY <2>8, <3>1
    <3>2. CASE k \in 1..(m - 1)
      BY <2>7, <2>8, <3>2
    <3> QED
      BY <3>1, <3>2
  <2>10. b + g[m] \in Nat
    BY <2>8
  <2> QED
    BY <2>3, <2>9, <2>10, Zenon
<1>2. PICK n \in Nat : \E g \in [1..n -> S] : \A x \in S : \E k \in 1..n : g[k] = x
  BY FS_NatSurjection DEF ExistsSurjection, Surjection
<1>2a. PICK g \in [1..n -> S] : \A x \in S : \E k \in 1..n : g[k] = x
  BY <1>2
<1>3. g \in [1..n -> Nat]
  OBVIOUS
<1>4. PICK b \in Nat : \A k \in 1..n : g[k] <= b
  BY <1>1, <1>2, <1>3
<1> QED
  BY <1>2a, <1>4

LEMMA MaximoDeFinito ==
  ASSUME NEW T \in SUBSET Nat, T # {}, IsFiniteSet(T)
  PROVE  /\ Max(T) \in T
         /\ \A y \in T : Max(T) >= y
BY FinitoLimitado, MaximoLimitado

-----------------------------------------------------------------------------
(* Counting along a numbering.                                              *)

\* A bijection onto 1..k counts a set.
LEMMA Conta1AteK ==
  ASSUME NEW T, NEW a \in Nat, NEW b \in Nat, a <= b, NEW f \in Bijection(T, (a + 1)..b)
  PROVE  IsFiniteSet(T) /\ Cardinality(T) = b - a
<1>1. ExistsBijection((a + 1)..b, T)
  BY Fun_ExistsBijSymmetric DEF ExistsBijection
<1>2. a + 1 \in Int /\ b \in Int
  OBVIOUS
<1>3. /\ IsFiniteSet((a + 1)..b)
      /\ Cardinality((a + 1)..b) = IF a + 1 > b THEN 0 ELSE b - (a + 1) + 1
  BY <1>2, FS_Interval
<1>4. IsFiniteSet(T) /\ Cardinality(T) = Cardinality((a + 1)..b)
  BY <1>1, <1>3, FS_Bijection
<1> QED
  BY <1>3, <1>4

\* As many rows stand before number m as there are numbers.
LEMMA Prefixo ==
  ASSUME NEW U, NEW N \in Nat, NEW pos \in Bijection(U, 1..N), NEW m \in 1..(N + 1)
  PROVE  /\ IsFiniteSet({d \in U : pos[d] < m})
         /\ Cardinality({d \in U : pos[d] < m}) = m - 1
<1> DEFINE T == {d \in U : pos[d] < m}
           f == [d \in T |-> pos[d]]
<1>1. /\ \A d \in U : pos[d] \in 1..N
      /\ \A d, e \in U : pos[d] = pos[e] => d = e
      /\ \A k \in 1..N : \E d \in U : pos[d] = k
  BY DEF Bijection, Injection, Surjection, IsInjective
<1>2. m - 1 \in Nat /\ 0 <= m - 1 /\ \A k \in (0 + 1)..(m - 1) : k \in 1..N /\ k < m
  OBVIOUS
<1>3. f \in [T -> (0 + 1)..(m - 1)]
  BY <1>1
<1>4. f \in Bijection(T, (0 + 1)..(m - 1))
  BY <1>1, <1>2, <1>3 DEF Bijection, Injection, Surjection, IsInjective
<1>5. IsFiniteSet(T) /\ Cardinality(T) = (m - 1) - 0
  BY <1>2, <1>4, Conta1AteK
<1> QED
  BY <1>5

\* Places of a finite set of rows with distinct numbers: each is taken by one
\* row, and they respect the numbers.
LEMMA PostoProperties ==
  ASSUME NEW S, IsFiniteSet(S), NEW pos, \A e \in S : pos[e] \in Nat,
         \A d, e \in S : pos[d] = pos[e] => d = e
  PROVE  /\ \A e \in S : Posto(S, pos, e) \in 1..Cardinality(S)
         /\ \A d, e \in S : pos[d] < pos[e] <=> Posto(S, pos, d) < Posto(S, pos, e)
         /\ \A k \in 1..Cardinality(S) : \E e \in S : Posto(S, pos, e) = k
<1> DEFINE ate(e) == {d \in S : pos[d] <= pos[e]}
           f == [e \in S |-> Posto(S, pos, e)]
<1>0. Cardinality(S) \in Nat
  BY FS_CardinalityType
<1>1. ASSUME NEW e \in S
      PROVE  IsFiniteSet(ate(e)) /\ Posto(S, pos, e) = Cardinality(ate(e))
             /\ Posto(S, pos, e) \in 1..Cardinality(S)
  <2>1. IsFiniteSet(ate(e)) /\ Cardinality(ate(e)) <= Cardinality(S)
    BY FS_Subset
  <2>2. e \in ate(e)
    OBVIOUS
  <2>3. Cardinality(ate(e)) \in Nat /\ Cardinality(ate(e)) # 0
    BY <2>1, <2>2, FS_CardinalityType, FS_EmptySet
  <2>4. Posto(S, pos, e) = Cardinality(ate(e))
    BY DEF Posto
  <2> HIDE DEF ate
  <2> QED
    BY <1>0, <2>1, <2>3, <2>4
<1>2. ASSUME NEW d \in S, NEW e \in S, pos[d] < pos[e]
      PROVE  Posto(S, pos, d) < Posto(S, pos, e)
  <2>1. ate(d) \subseteq ate(e) /\ e \in ate(e) /\ e \notin ate(d)
    BY <1>2
  <2>2. Cardinality(ate(d)) <= Cardinality(ate(e)) /\ Cardinality(ate(d)) # Cardinality(ate(e))
    <3> HIDE DEF ate
    <3> QED
      BY <1>1, <2>1, FS_Subset
  <2> HIDE DEF ate
  <2> QED
    BY <1>0, <1>1, <2>2
<1>3. \A e \in S : Posto(S, pos, e) \in 1..Cardinality(S)
  BY <1>1
<1> HIDE DEF ate
<1>3a. \A d, e \in S : pos[d] < pos[e] <=> Posto(S, pos, d) < Posto(S, pos, e)
  <2> SUFFICES ASSUME NEW d \in S, NEW e \in S
               PROVE  pos[d] < pos[e] <=> Posto(S, pos, d) < Posto(S, pos, e)
    OBVIOUS
  <2>1. pos[d] < pos[e] => Posto(S, pos, d) < Posto(S, pos, e)
    BY <1>2
  <2>2. pos[e] < pos[d] => Posto(S, pos, e) < Posto(S, pos, d)
    BY <1>2
  <2>3. pos[d] = pos[e] => Posto(S, pos, e) = Posto(S, pos, d)
    OBVIOUS
  <2>4. Posto(S, pos, d) \in Nat /\ Posto(S, pos, e) \in Nat
    BY <1>0, <1>3
  <2> QED
    BY <2>1, <2>2, <2>3, <2>4
<1>4. f \in Injection(S, 1..Cardinality(S))
  <2>1. f \in [S -> 1..Cardinality(S)]
    BY <1>3
  <2>2. ASSUME NEW d \in S, NEW e \in S, f[d] = f[e] PROVE d = e
    <3>1. ~(pos[d] < pos[e]) /\ ~(pos[e] < pos[d])
      BY <1>0, <1>3, <1>3a, <2>2
    <3> QED
      BY <3>1
  <2> QED
    BY <2>1, <2>2 DEF Injection, IsInjective
<1>5. Cardinality(1..Cardinality(S)) = Cardinality(S) /\ IsFiniteSet(1..Cardinality(S))
  BY <1>0, FS_Interval
<1>6. f \in Surjection(S, 1..Cardinality(S))
  BY <1>4, <1>5, FS_Injection
<1>7. \A k \in 1..Cardinality(S) : \E e \in S : f[e] = k
  BY <1>6 DEF Surjection
<1> QED
  BY <1>3, <1>3a, <1>7

\* A cut between two places holds as many rows as it is wide.
LEMMA Fatia ==
  ASSUME NEW S, IsFiniteSet(S), NEW pos, \A e \in S : pos[e] \in Nat,
         \A d, e \in S : pos[d] = pos[e] => d = e,
         NEW a \in Nat, NEW b \in Nat, a <= b, b <= Cardinality(S)
  PROVE  Cardinality({e \in S : a < Posto(S, pos, e) /\ Posto(S, pos, e) <= b}) = b - a
<1> DEFINE T == {e \in S : a < Posto(S, pos, e) /\ Posto(S, pos, e) <= b}
           f == [e \in T |-> Posto(S, pos, e)]
<1>0. Cardinality(S) \in Nat
  BY FS_CardinalityType
<1>1. /\ \A e \in S : Posto(S, pos, e) \in 1..Cardinality(S)
      /\ \A d, e \in S : pos[d] < pos[e] <=> Posto(S, pos, d) < Posto(S, pos, e)
      /\ \A k \in 1..Cardinality(S) : \E e \in S : Posto(S, pos, e) = k
  BY PostoProperties
<1>2. f \in [T -> (a + 1)..b]
  BY <1>0, <1>1
<1>3. ASSUME NEW d \in T, NEW e \in T, f[d] = f[e] PROVE d = e
  <2>1. ~(pos[d] < pos[e]) /\ ~(pos[e] < pos[d])
    BY <1>0, <1>1, <1>3
  <2> QED
    BY <2>1
<1>4. ASSUME NEW k \in (a + 1)..b PROVE \E e \in T : f[e] = k
  <2>1. k \in 1..Cardinality(S)
    BY <1>0
  <2>2. PICK e \in S : Posto(S, pos, e) = k
    BY <1>1, <2>1
  <2> QED
    BY <2>2
<1>5. f \in Bijection(T, (a + 1)..b)
  BY <1>2, <1>3, <1>4 DEF Bijection, Injection, Surjection, IsInjective
<1> QED
  BY <1>5, Conta1AteK

-----------------------------------------------------------------------------
(* Numberings exist.                                                        *)

\* A finite set with a strict order has a last element.
LEMMA UltimoExiste ==
  ASSUME NEW S, IsFiniteSet(S), S # {}, NEW R,
         \A x \in S : <<x, x>> \notin R,
         \A x, y, z \in S : <<x, y>> \in R /\ <<y, z>> \in R => <<x, z>> \in R
  PROVE  \E z \in S : \A y \in S : <<z, y>> \notin R
<1> DEFINE antes(z) == {x \in S : <<x, z>> \in R}
           T == {Cardinality(antes(z)) : z \in S}
<1>1. Cardinality(S) \in Nat
  BY FS_CardinalityType
<1>2. ASSUME NEW z \in S
      PROVE  /\ IsFiniteSet(antes(z)) /\ Cardinality(antes(z)) \in Nat
             /\ Cardinality(antes(z)) <= Cardinality(S)
  BY FS_Subset, FS_CardinalityType
<1>3. T \in SUBSET Nat /\ T # {} /\ \A y \in T : y <= Cardinality(S)
  <2> HIDE DEF antes
  <2>1. \A z \in S : Cardinality(antes(z)) \in Nat /\ Cardinality(antes(z)) <= Cardinality(S)
    BY <1>2
  <2> QED
    BY <2>1
<1>4. Max(T) \in T /\ \A y \in T : Max(T) >= y
  <2> HIDE DEF T
  <2> QED
    BY <1>1, <1>3, MaximoLimitado
<1>5. PICK z \in S : Max(T) = Cardinality(antes(z))
  BY <1>4
<1>6. ASSUME NEW y \in S, <<z, y>> \in R PROVE FALSE
  <2>1. antes(z) \subseteq antes(y) /\ z \in antes(y) /\ z \notin antes(z)
    BY <1>6
  <2>2. Cardinality(antes(y)) <= Cardinality(antes(z))
    <3> HIDE DEF antes
    <3>1. Cardinality(antes(y)) \in T
      OBVIOUS
    <3> HIDE DEF T
    <3>2. Cardinality(antes(z)) >= Cardinality(antes(y))
      BY <1>4, <1>5, <3>1
    <3> QED
      BY <1>2, <3>2
  <2>3. Cardinality(antes(z)) <= Cardinality(antes(y)) /\ Cardinality(antes(z)) # Cardinality(antes(y))
    <3>1. IsFiniteSet(antes(y))
      BY <1>2
    <3> HIDE DEF antes
    <3> QED
      BY <2>1, <3>1, FS_Subset
  <2>4. Cardinality(antes(z)) \in Nat /\ Cardinality(antes(y)) \in Nat
    BY <1>2
  <2> QED
    BY <2>2, <2>3, <2>4
<1> QED
  BY <1>6

\* A finite set can be numbered so that a strict order is respected.
LEMMA NumeracaoRespeita ==
  ASSUME NEW S, IsFiniteSet(S), NEW R,
         \A x \in S : <<x, x>> \notin R,
         \A x, y, z \in S : <<x, y>> \in R /\ <<y, z>> \in R => <<x, z>> \in R
  PROVE  \E pos \in Bijection(S, 1..Cardinality(S)) :
           \A x, y \in S : <<x, y>> \in R => pos[x] < pos[y]
<1> DEFINE Numera(pos, T, n) == /\ pos \in Bijection(T, 1..n)
                                /\ \A x, y \in T : <<x, y>> \in R => pos[x] < pos[y]
           Boa(n) == \A T \in SUBSET S : Cardinality(T) = n => \E pos : Numera(pos, T, n)
           ruins == {n \in Nat : ~Boa(n)}
<1>0. \A T \in SUBSET S : IsFiniteSet(T) /\ Cardinality(T) \in Nat
  BY FS_Subset, FS_CardinalityType
<1>1. Boa(0)
  <2> SUFFICES ASSUME NEW T \in SUBSET S, Cardinality(T) = 0 PROVE \E pos : Numera(pos, T, 0)
    OBVIOUS
  <2>1. T = {}
    BY <1>0, FS_EmptySet
  <2>2. [x \in T |-> x] \in Bijection(T, 1..0)
    BY <2>1 DEF Bijection, Injection, Surjection, IsInjective
  <2> QED
    BY <2>1, <2>2
<1>2. ASSUME NEW n \in Nat, n # 0, Boa(n - 1) PROVE Boa(n)
  <2> SUFFICES ASSUME NEW T \in SUBSET S, Cardinality(T) = n PROVE \E pos : Numera(pos, T, n)
    OBVIOUS
  <2>1. IsFiniteSet(T) /\ T # {}
    BY <1>0, <1>2, FS_EmptySet
  <2>2. PICK z \in T : \A y \in T : <<z, y>> \notin R
    BY <2>1, UltimoExiste
  <2>3. Cardinality(T \ {z}) = n - 1 /\ T \ {z} \in SUBSET S
    BY <2>1, FS_RemoveElement
  <2>4. PICK p : Numera(p, T \ {z}, n - 1)
    BY <1>2, <2>3
  <2>5. /\ p \in [T \ {z} -> 1..(n - 1)]
        /\ \A x, y \in T \ {z} : p[x] = p[y] => x = y
        /\ \A k \in 1..(n - 1) : \E x \in T \ {z} : p[x] = k
        /\ \A x, y \in T \ {z} : <<x, y>> \in R => p[x] < p[y]
    BY <2>4 DEF Bijection, Injection, Surjection, IsInjective
  <2> DEFINE pos == [x \in T |-> IF x = z THEN n ELSE p[x]]
  <2>6. \A x \in T \ {z} : p[x] \in Nat /\ 1 <= p[x] /\ p[x] < n
    BY <1>2, <2>5
  <2>7. pos \in [T -> 1..n]
    BY <1>2, <2>6
  <2>8. \A x, y \in T : pos[x] = pos[y] => x = y
    BY <1>2, <2>5, <2>6
  <2>9. ASSUME NEW k \in 1..n PROVE \E x \in T : pos[x] = k
    <3>1. CASE k = n
      BY <3>1
    <3>2. CASE k # n
      <4>1. k \in 1..(n - 1)
        BY <1>2, <3>2
      <4>2. PICK x \in T \ {z} : p[x] = k
        BY <2>5, <4>1
      <4> QED
        BY <4>2
    <3> QED
      BY <3>1, <3>2
  <2>10. \A x, y \in T : <<x, y>> \in R => pos[x] < pos[y]
    BY <1>2, <2>2, <2>5, <2>6
  <2>11. pos \in Bijection(T, 1..n)
    BY <2>7, <2>8, <2>9 DEF Bijection, Injection, Surjection, IsInjective
  <2> QED
    BY <2>10, <2>11
<1>3. ASSUME NEW m \in Nat PROVE Boa(m)
  <2> HIDE DEF Boa
  <2>1. SUFFICES ASSUME ruins # {} PROVE FALSE
    OBVIOUS
  <2>2. PICK n \in Nat : ~Boa(n) /\ \A i \in Nat : ~Boa(i) => n <= i
    BY <2>1, MenorNatural
  <2>3. n # 0
    BY <1>1, <2>2
  <2>4. n - 1 \in Nat /\ ~(n <= n - 1)
    BY <2>3
  <2> QED
    BY <1>2, <2>2, <2>3, <2>4
<1>4. \E pos : Numera(pos, S, Cardinality(S))
  BY <1>0, <1>3
<1> QED
  BY <1>4

-----------------------------------------------------------------------------
(* Sums over the guesses, and what the rows of a player are ordered by.     *)

\* A running sum exists: the recursion of `Total` defines a function.
LEMMA SomaExiste ==
  ASSUME NEW n \in Nat, NEW g \in [1..n -> Nat]
  PROVE  \E f \in [0..n -> Nat] : f = [i \in 0..n |-> IF i = 0 THEN 0 ELSE f[i - 1] + g[i]]
<1> DEFINE Soma(f, m) == \A i \in 0..m : f[i] = IF i = 0 THEN 0 ELSE f[i - 1] + g[i]
           Boa(m) == \E f \in [0..m -> Nat] : Soma(f, m)
           ruins == {m \in 0..n : ~Boa(m)}
<1>1. Boa(0)
  <2>1. [i \in 0..0 |-> 0] \in [0..0 -> Nat] /\ Soma([i \in 0..0 |-> 0], 0)
    OBVIOUS
  <2> QED
    BY <2>1
<1>2. ASSUME NEW m \in 0..n, m # 0, Boa(m - 1) PROVE Boa(m)
  <2>1. PICK f \in [0..(m - 1) -> Nat] : Soma(f, m - 1)
    BY <1>2
  <2>2. g[m] \in Nat /\ f[m - 1] \in Nat /\ m - 1 \in Nat
    BY <1>2
  <2> DEFINE h == [i \in 0..m |-> IF i = m THEN f[m - 1] + g[m] ELSE f[i]]
  <2>3. h \in [0..m -> Nat]
    BY <2>2
  <2>4. ASSUME NEW i \in 0..m PROVE h[i] = IF i = 0 THEN 0 ELSE h[i - 1] + g[i]
    <3>1. CASE i = m
      BY <1>2, <2>2, <3>1
    <3>2. CASE i # m
      <4>1. i \in 0..(m - 1) /\ (i # 0 => i - 1 \in 0..m /\ i - 1 # m)
        BY <3>2
      <4> QED
        BY <2>1, <3>2, <4>1
    <3> QED
      BY <3>1, <3>2
  <2> QED
    BY <2>3, <2>4
<1>3. Boa(n)
  <2> HIDE DEF Boa
  <2>1. SUFFICES ASSUME ruins # {} PROVE FALSE
    OBVIOUS
  <2>2. PICK m \in 0..n : ~Boa(m) /\ \A i \in 0..n : ~Boa(i) => m <= i
    <3>1. ruins \in SUBSET Nat
      OBVIOUS
    <3> QED
      BY <2>1, <3>1, MenorNatural
  <2>3. m # 0
    BY <1>1, <2>2
  <2>4. m - 1 \in 0..n /\ ~(m <= m - 1)
    BY <2>3
  <2> QED
    BY <1>2, <2>2, <2>3, <2>4
<1>4. PICK f \in [0..n -> Nat] : Soma(f, n)
  BY <1>3
<1>5. f = [i \in 0..n |-> IF i = 0 THEN 0 ELSE f[i - 1] + g[i]]
  BY <1>4
<1> QED
  BY <1>5

\* Its values are numbers, and 0 where nothing but zeros was added.
LEMMA SomaProperties ==
  ASSUME NEW n \in Nat, NEW g \in [1..n -> Nat], NEW f,
         f = [i \in 0..n |-> IF i = 0 THEN 0 ELSE f[i - 1] + g[i]]
  PROVE  /\ f[n] \in Nat
         /\ (\A i \in 1..n : g[i] = 0) => f[n] = 0
<1> DEFINE Boa(i) == f[i] \in Nat /\ ((\A k \in 1..n : g[k] = 0) => f[i] = 0)
           ruins == {i \in 0..n : ~Boa(i)}
<1>1. Boa(0)
  OBVIOUS
<1>2. ASSUME NEW i \in 1..n, Boa(i - 1) PROVE Boa(i)
  <2>1. f[i] = f[i - 1] + g[i]
    OBVIOUS
  <2> QED
    BY <1>2, <2>1
<1>3. Boa(n)
  <2> HIDE DEF Boa
  <2>1. SUFFICES ASSUME ruins # {} PROVE FALSE
    OBVIOUS
  <2>2. PICK m \in 0..n : ~Boa(m) /\ \A i \in 0..n : ~Boa(i) => m <= i
    <3>1. ruins \in SUBSET Nat
      OBVIOUS
    <3> QED
      BY <2>1, <3>1, MenorNatural
  <2>3. m \in 1..n /\ m - 1 \in 0..n /\ ~(m <= m - 1)
    BY <1>1, <2>2
  <2> QED
    BY <1>2, <2>2, <2>3
<1> QED
  BY <1>3

LEMMA FimProperties ==
  ASSUME TypeOK
  PROVE  /\ Fim \in Nat
         /\ \A i \in DOMAIN palpites : i \in 1..Fim
         /\ DOMAIN palpites # {} => Fim \in DOMAIN palpites
         /\ Agora \in Nat \ {0} /\ Agora \notin DOMAIN palpites
<1> DEFINE T == DOMAIN palpites \cup {0}
<1>1. T \in SUBSET Nat /\ T # {} /\ DOMAIN palpites \subseteq Nat \ {0}
  BY DEF TypeOK
<1>2. IsFiniteSet(T)
  BY FS_AddElement DEF TypeOK
<1>3. Max(T) \in T /\ \A y \in T : Max(T) >= y
  <2> HIDE DEF T
  <2> QED
    BY <1>1, <1>2, MaximoDeFinito
<1> QED
  BY <1>1, <1>3 DEF Fim, Agora

\* Points of a player: a number, and 0 without a guess.
LEMMA TotalProperties ==
  ASSUME TypeOK, NEW e
  PROVE  /\ Total(e) \in Nat
         /\ PalpitesDe(e) = {} => Total(e) = 0
<1> DEFINE valor(i) == IF i \in DOMAIN palpites /\ palpites[i].jogador = e THEN palpites[i].pontos ELSE 0
           ate == CHOOSE f : f = [i \in 0..Fim |-> IF i = 0 THEN 0 ELSE f[i - 1] + valor(i)]
           g == [i \in 1..Fim |-> valor(i)]
<1>1. Fim \in Nat
  BY FimProperties
<1>2. g \in [1..Fim -> Nat]
  BY DEF TypeOK, Linhas
<1>3. PICK f \in [0..Fim -> Nat] : f = [i \in 0..Fim |-> IF i = 0 THEN 0 ELSE f[i - 1] + g[i]]
  BY <1>1, <1>2, SomaExiste
<1>4. f = [i \in 0..Fim |-> IF i = 0 THEN 0 ELSE f[i - 1] + valor(i)]
  <2>1. \A i \in 0..Fim : i # 0 => i \in 1..Fim /\ g[i] = valor(i)
    BY <1>1
  <2> HIDE DEF valor, g
  <2> QED
    BY <1>3, <2>1
<1>5. ate = [i \in 0..Fim |-> IF i = 0 THEN 0 ELSE ate[i - 1] + valor(i)]
  BY <1>4
<1>6. Total(e) = ate[Fim]
  BY DEF Total
<1> HIDE DEF ate
<1>7. ate = [i \in 0..Fim |-> IF i = 0 THEN 0 ELSE ate[i - 1] + g[i]]
  <2>1. \A i \in 0..Fim : i # 0 => i \in 1..Fim /\ g[i] = valor(i)
    BY <1>1
  <2> HIDE DEF valor, g
  <2> QED
    BY <1>5, <2>1
<1>8. PalpitesDe(e) = {} => \A i \in 1..Fim : g[i] = 0
  BY DEF PalpitesDe
<1> HIDE DEF g
<1>9. ate[Fim] \in Nat /\ ((\A i \in 1..Fim : g[i] = 0) => ate[Fim] = 0)
  BY <1>1, <1>2, <1>7, SomaProperties, Zenon
<1> QED
  BY <1>6, <1>8, <1>9

-----------------------------------------------------------------------------
(* The inductive invariant.                                                 *)

\* Players with a row are finitely many, and a request only adds to them.
LEMMA UsuariosFinitos == IsFiniteSet(Usuarios) /\ Cardinality(Usuarios) \in Nat
<1>1. Usuarios \in SUBSET Jogadores
  BY DEF Usuarios
<1> QED
  BY <1>1, JogadoresAssumption, FS_Subset, FS_CardinalityType

LEMMA UsuariosFicam ==
  ASSUME TypeOK, [Next]_vars
  PROVE  Usuarios \subseteq Usuarios'
<1>1. \/ UNCHANGED nome
      \/ \E e \in Jogadores, n \in Nomes : nome' = [nome EXCEPT ![e] = n]
  BY DEF Next, vars, Palpita, Apura, Reativa, Exclui, Usa, Conta, Responde, tabelas
<1> QED
  BY <1>1, NomesAssumption DEF Usuarios, TypeOK

LEMMA PassoTipos == TypeOK /\ [Next]_vars => TypeOK'
<1> SUFFICES ASSUME TypeOK, [Next]_vars PROVE TypeOK'
  OBVIOUS
<1> USE DEF TypeOK, Linhas
<1>1. ASSUME NEW j \in Jogos, NEW e \in Jogadores, NEW n \in Nomes, Palpita(e, j, n)
      PROVE  TypeOK'
  <2>1. nome' \in [Jogadores -> Nomes \cup {Nulo}] /\ UNCHANGED <<utilizados, situacao, contagem>>
    BY <1>1 DEF Palpita
  <2>2. CASE UNCHANGED <<palpites, cupons>>
    BY <2>1, <2>2
  <2>3. CASE ~UNCHANGED <<palpites, cupons>>
    <3>1. PICK p \in Palpites :
            palpites' = [i \in DOMAIN palpites \cup {Agora} |->
               IF i = Agora THEN [jogador |-> e, jogo |-> j, placar |-> p, pontos |-> 0]
               ELSE palpites[i]]
      BY <1>1, <2>3 DEF Palpita
    <3>2. cupons' \in {cupons, cupons \cup {<<e, j>>}}
      BY <1>1, <2>3 DEF Palpita
    <3>3. Agora \in Nat \ {0}
      BY FimProperties
    <3>4. DOMAIN palpites' = DOMAIN palpites \cup {Agora}
      BY <3>1
    <3>5. IsFiniteSet(DOMAIN palpites')
      BY <3>4, FS_AddElement
    <3>6. \A i \in DOMAIN palpites' : palpites'[i] \in Linhas
      BY <3>1, <3>4
    <3>7. IsFiniteSet(cupons \cup {<<e, j>>})
      BY FS_AddElement
    <3>8. /\ cupons' \subseteq Jogadores \X Jogos /\ IsFiniteSet(cupons')
          /\ utilizados' \subseteq cupons'
      <4>1. CASE cupons' = cupons
        BY <2>1, <4>1
      <4>2. CASE cupons' = cupons \cup {<<e, j>>}
        BY <2>1, <3>7, <4>2
      <4> QED
        BY <3>2, <4>1, <4>2
    <3> QED
      BY <2>1, <3>3, <3>4, <3>5, <3>6, <3>8
  <2> QED
    BY <2>2, <2>3
<1>2. ASSUME NEW j \in Jogos, NEW p \in Resultados, Apura(j, p) PROVE TypeOK'
  <2>1. situacao' \in [Jogos -> {"ativo", "encerrado", "excluido"}]
    BY <1>2 DEF Apura
  <2>2. DOMAIN palpites' = DOMAIN palpites
    BY <1>2 DEF Apura
  <2>3. ASSUME NEW i \in DOMAIN palpites PROVE palpites'[i] \in Linhas
    <3>1. CalcularPontos(palpites[i].placar, p) \in {0, 5, 10}
      BY DEF CalcularPontos
    <3>2. palpites'[i] = IF palpites[i].jogo = j
            THEN [palpites[i] EXCEPT !.pontos = CalcularPontos(palpites[i].placar, p)]
            ELSE palpites[i]
      BY <1>2 DEF Apura
    <3> QED
      BY <3>1, <3>2
  <2>4. cupons' \subseteq Jogadores \X Jogos /\ IsFiniteSet(cupons') /\ utilizados' \subseteq cupons'
    <3> DEFINE novos == {<<linha.jogador, j>> : linha \in {l \in Range(palpites) : l.jogo = j /\ l.placar = p}}
    <3>1. \A l \in Range(palpites) : l.jogador \in Jogadores
      BY DEF Range
    <3>2. novos \in SUBSET (Jogadores \X {j})
      BY <3>1
    <3>3. IsFiniteSet(Jogadores \X {j})
      BY JogadoresAssumption, FS_Singleton, FS_Product
    <3>4. IsFiniteSet(novos)
      BY <3>2, <3>3, FS_Subset
    <3>5. cupons' = cupons \cup novos
      BY <1>2 DEF Apura
    <3> HIDE DEF novos
    <3>6. IsFiniteSet(cupons')
      BY <3>4, <3>5, FS_Union
    <3> QED
      BY <1>2, <3>2, <3>5, <3>6 DEF Apura
  <2> QED
    BY <1>2, <2>1, <2>2, <2>3, <2>4 DEF Apura
<1>3. ASSUME NEW j \in Jogos, Reativa(j) PROVE TypeOK'
  BY <1>3 DEF Reativa
<1>4. ASSUME NEW j \in Jogos, Exclui(j) PROVE TypeOK'
  <2>1. situacao' \in [Jogos -> {"ativo", "encerrado", "excluido"}]
    BY <1>4 DEF Exclui
  <2>2. /\ DOMAIN palpites' \in SUBSET DOMAIN palpites
        /\ \A i \in DOMAIN palpites' : palpites'[i] = palpites[i]
    BY <1>4 DEF Exclui
  <2>3. IsFiniteSet(DOMAIN palpites')
    BY <2>2, FS_Subset
  <2> QED
    BY <1>4, <2>1, <2>2, <2>3 DEF Exclui
<1>5. ASSUME NEW c \in cupons, Usa(c) PROVE TypeOK'
  BY <1>5 DEF Usa
<1>6. ASSUME NEW busca \in Buscas, Conta(busca) PROVE TypeOK'
  BY <1>6 DEF Conta, Encontrados, Usuarios, tabelas
<1>7. CASE Responde
  BY <1>7 DEF Responde, tabelas
<1>8. CASE UNCHANGED vars
  BY <1>8 DEF vars
<1> QED
  BY <1>1, <1>2, <1>3, <1>4, <1>5, <1>6, <1>7, <1>8 DEF Next

LEMMA PassoJogos == TypeOK /\ PalpiteTemJogo /\ [Next]_vars => PalpiteTemJogo'
<1> SUFFICES ASSUME TypeOK, PalpiteTemJogo, [Next]_vars PROVE PalpiteTemJogo'
  OBVIOUS
<1> USE DEF PalpiteTemJogo, Existe
<1>0. \A i \in DOMAIN palpites : palpites[i] \in Linhas /\ palpites[i].jogo \in Jogos
  BY DEF TypeOK, Linhas
<1>1. ASSUME NEW j \in Jogos, NEW e \in Jogadores, NEW n \in Nomes, Palpita(e, j, n)
      PROVE  PalpiteTemJogo'
  BY <1>1, FimProperties DEF Palpita
<1>2. ASSUME NEW j \in Jogos, NEW p \in Resultados, Apura(j, p) PROVE PalpiteTemJogo'
  <2>1. /\ DOMAIN palpites' = DOMAIN palpites
        /\ \A k \in Jogos : situacao[k] # "excluido" => situacao'[k] # "excluido"
    BY <1>2 DEF Apura, TypeOK
  <2>2. \A i \in DOMAIN palpites : palpites'[i].jogo = palpites[i].jogo
    BY <1>0, <1>2 DEF Apura, Linhas
  <2> QED
    BY <1>0, <2>1, <2>2
<1>3. ASSUME NEW j \in Jogos, Reativa(j) PROVE PalpiteTemJogo'
  BY <1>0, <1>3 DEF Reativa, TypeOK
<1>4. ASSUME NEW j \in Jogos, Exclui(j) PROVE PalpiteTemJogo'
  BY <1>0, <1>4 DEF Exclui, TypeOK
<1>5. CASE \/ \E c \in cupons : Usa(c)
           \/ \E busca \in Buscas : Conta(busca)
           \/ Responde \/ UNCHANGED vars
  BY <1>5 DEF Usa, Conta, Responde, vars, tabelas
<1> QED
  BY <1>1, <1>2, <1>3, <1>4, <1>5 DEF Next

LEMMA PassoContagem == TypeOK /\ ContagemAlcancada /\ [Next]_vars => ContagemAlcancada'
<1> SUFFICES ASSUME TypeOK, ContagemAlcancada, [Next]_vars PROVE ContagemAlcancada'
  OBVIOUS
<1>1. Usuarios \subseteq Usuarios'
  BY UsuariosFicam
<1>2. CASE UNCHANGED contagem
  BY <1>1, <1>2 DEF ContagemAlcancada
<1>3. ASSUME NEW busca \in Buscas, Conta(busca) PROVE ContagemAlcancada'
  <2>1. contagem'.contados = Encontrados(busca)
    BY <1>3 DEF Conta
  <2> QED
    BY <1>1, <2>1 DEF ContagemAlcancada, Encontrados
<1>4. CASE Responde
  BY <1>4 DEF ContagemAlcancada, Responde
<1> QED
  BY <1>2, <1>3, <1>4 DEF Next, vars, Palpita, Apura, Reativa, Exclui, Usa

\* The tables keep their types, no guess outlives its game and the players that
\* a ranking request counted are still there.
THEOREM InvarianteDasPaginas == Spec => []IInv
<1>1. Init => IInv
  BY FS_EmptySet DEF Init, IInv, TypeOK, PalpiteTemJogo, ContagemAlcancada
<1>2. IInv /\ [Next]_vars => IInv'
  BY PassoTipos, PassoJogos, PassoContagem DEF IInv
<1> QED
  BY <1>1, <1>2, PTL DEF Spec

-----------------------------------------------------------------------------
(* The order of the players.                                                *)

LEMMA UltimoProperties ==
  ASSUME TypeOK, NEW e
  PROVE  /\ Ultimo(e) \in Nat
         /\ PalpitesDe(e) # {} => Ultimo(e) \in PalpitesDe(e)
<1> DEFINE T == PalpitesDe(e) \cup {0}
<1>1. T \in SUBSET Nat /\ T # {} /\ PalpitesDe(e) \subseteq 1..Fim
  BY FimProperties DEF PalpitesDe
<1>2. \A i \in T : i <= Fim
  BY <1>1, FimProperties
<1>3. Max(T) \in T /\ \A y \in T : Max(T) >= y
  <2> HIDE DEF T
  <2> QED
    BY <1>1, <1>2, FimProperties, MaximoLimitado
<1> QED
  BY <1>1, <1>3 DEF Ultimo

\* `Antes` is a strict order of the players with a row.
LEMMA AntesOrdena ==
  ASSUME TypeOK
  PROVE  /\ \A e \in Usuarios : Total(e) \in Nat /\ Ultimo(e) \in Nat /\ nome[e] \in Nat
         /\ \A e \in Usuarios : ~Antes(e, e)
         /\ \A d, e, x \in Usuarios : Antes(d, e) /\ Antes(e, x) => Antes(d, x)
<1>1. \A e \in Usuarios : Total(e) \in Nat /\ Ultimo(e) \in Nat /\ nome[e] \in Nat
  BY TotalProperties, UltimoProperties, NomesAssumption DEF Usuarios, TypeOK
<1>2. ASSUME NEW e \in Usuarios PROVE ~Antes(e, e)
  BY <1>1 DEF Antes
<1>3. ASSUME NEW d \in Usuarios, NEW e \in Usuarios, NEW x \in Usuarios, Antes(d, e), Antes(e, x)
      PROVE  Antes(d, x)
  BY <1>1, <1>3 DEF Antes
<1> QED
  BY <1>1, <1>2, <1>3

\* Two players, one of them with a guess, are always told apart.
LEMMA AntesDistingue ==
  ASSUME TypeOK, NEW d \in Usuarios, NEW e \in Usuarios, d # e,
         ~Antes(d, e), ~Antes(e, d)
  PROVE  PalpitesDe(d) = {} /\ PalpitesDe(e) = {}
<1>1. Ultimo(d) = Ultimo(e)
  BY AntesOrdena DEF Antes
<1>2. PalpitesDe(d) \cap PalpitesDe(e) = {}
  BY DEF PalpitesDe
<1>3. 0 \notin PalpitesDe(d) /\ 0 \notin PalpitesDe(e)
  BY DEF PalpitesDe, TypeOK
<1>4. ASSUME NEW x, PalpitesDe(x) = {} PROVE Ultimo(x) = 0
  BY <1>4, MaximoLimitado DEF Ultimo
<1> QED
  BY <1>1, <1>2, <1>3, <1>4, UltimoProperties

\* Two requests never number players with guesses differently (ranking.rs:48).
THEOREM DesempateSempreEstavel == Spec => []DesempateEstavel
<1>1. IInv => DesempateEstavel
  BY AntesDistingue DEF IInv, DesempateEstavel
<1> QED
  BY <1>1, InvarianteDasPaginas, PTL

\* The rows of a ranking can be numbered in their order, so what is said of
\* every numbering is said of some.
LEMMA NumeracaoExiste ==
  ASSUME TypeOK, NEW S \in SUBSET Usuarios
  PROVE  /\ IsFiniteSet(S) /\ Cardinality(S) \in Nat
         /\ \E pos \in Bijection(S, 1..Cardinality(S)) :
              \A d, e \in S : Antes(d, e) => pos[d] < pos[e]
<1> DEFINE R == {par \in Usuarios \X Usuarios : Antes(par[1], par[2])}
<1>1. \A d, e \in Usuarios : <<d, e>> \in R <=> Antes(d, e)
  OBVIOUS
<1>2. IsFiniteSet(S) /\ Cardinality(S) \in Nat
  BY UsuariosFinitos, FS_Subset, FS_CardinalityType
<1> HIDE DEF R
<1>3. /\ \A x \in S : <<x, x>> \notin R
      /\ \A x, y, z \in S : <<x, y>> \in R /\ <<y, z>> \in R => <<x, z>> \in R
  BY <1>1, AntesOrdena
<1>4. \E pos \in Bijection(S, 1..Cardinality(S)) : \A d, e \in S : <<d, e>> \in R => pos[d] < pos[e]
  BY <1>2, <1>3, NumeracaoRespeita
<1> QED
  BY <1>1, <1>2, <1>4

THEOREM HaNumeracao == Spec => [](Numeracoes # {})
<1>1. IInv => Numeracoes # {}
  <2> SUFFICES ASSUME TypeOK PROVE Numeracoes # {}
    BY DEF IInv
  <2>1. PICK pos \in Bijection(Usuarios, 1..Cardinality(Usuarios)) :
          \A d, e \in Usuarios : Antes(d, e) => pos[d] < pos[e]
    BY NumeracaoExiste
  <2>2. pos \in Numeracoes
    BY <2>1 DEF Numeracoes
  <2> QED
    BY <2>2
<1> QED
  BY <1>1, InvarianteDasPaginas, PTL

-----------------------------------------------------------------------------
(* Pages.                                                                   *)

LEMMA Produto ==
  ASSUME NEW a \in Int, NEW b \in Int, NEW c \in Nat, a <= b
  PROVE  a * c <= b * c
<1>1. 0 <= (b - a) * c
  OBVIOUS
<1> QED
  BY <1>1

LEMMA Divisao ==
  ASSUME NEW a \in Nat, NEW c \in Nat \ {0}
  PROVE  /\ a \div c \in Nat
         /\ (a \div c) * c <= a
         /\ a < (a \div c + 1) * c
OBVIOUS

\* The last page is the first that reaches the last row.
LEMMA UltimaPagina ==
  ASSUME NEW total \in Nat
  PROVE  /\ TotalPaginas(total) \in Nat \ {0}
         /\ total <= TotalPaginas(total) * PorPagina
         /\ \A n \in Nat : n < TotalPaginas(total) => n * PorPagina < total \/ n = 0
<1> DEFINE q == (total + PorPagina - 1) \div PorPagina
<1>1. PorPagina \in Nat \ {0} /\ total + PorPagina - 1 \in Nat
  BY TamanhosAssumption
<1>2. q \in Nat /\ q * PorPagina <= total + PorPagina - 1 /\ total + PorPagina - 1 < (q + 1) * PorPagina
  BY <1>1, Divisao
<1> HIDE DEF q
<1>3. TotalPaginas(total) = IF q = 0 THEN 1 ELSE q
  <2>1. TotalPaginas(total) = Max({1, q})
    BY DEF TotalPaginas, q
  <2>2. \A y \in {1, q} : y <= q + 1
    BY <1>2
  <2>3. Max({1, q}) \in {1, q} /\ \A y \in {1, q} : Max({1, q}) >= y
    <3>1. q + 1 \in Nat /\ {1, q} \in SUBSET Nat /\ {1, q} # {}
      BY <1>2
    <3> QED
      BY <2>2, <3>1, MaximoLimitado
  <2> QED
    BY <1>2, <2>1, <2>3
<1>4. (q + 1) * PorPagina = q * PorPagina + PorPagina
  BY <1>1, <1>2
<1>5. ASSUME NEW n \in Nat, n < TotalPaginas(total), n # 0 PROVE n * PorPagina < total
  <2>1. n <= q - 1
    BY <1>2, <1>3, <1>5
  <2>2. n * PorPagina <= (q - 1) * PorPagina
    BY <1>1, <1>2, <2>1, Produto
  <2>3. (q - 1) * PorPagina = q * PorPagina - PorPagina
    BY <1>1, <1>2
  <2> QED
    BY <1>1, <1>2, <2>2, <2>3
<1> QED
  BY <1>1, <1>2, <1>3, <1>4, <1>5

LEMMA NumeracaoProperties ==
  ASSUME TypeOK, NEW pos \in Numeracoes
  PROVE  /\ pos \in Bijection(Usuarios, 1..Cardinality(Usuarios))
         /\ \A e \in Usuarios : pos[e] \in 1..Cardinality(Usuarios) /\ pos[e] \in Nat
         /\ \A d, e \in Usuarios : pos[d] = pos[e] => d = e
         /\ \A k \in 1..Cardinality(Usuarios) : \E e \in Usuarios : pos[e] = k
         /\ \A d, e \in Usuarios : Antes(d, e) => pos[d] < pos[e]
         /\ \A m \in 1..(Cardinality(Usuarios) + 1) :
              Cardinality({d \in Usuarios : pos[d] < m}) = m - 1
<1>1. pos \in Bijection(Usuarios, 1..Cardinality(Usuarios))
  BY DEF Numeracoes
<1>2. ASSUME NEW d \in Usuarios, NEW e \in Usuarios, Antes(d, e) PROVE pos[d] < pos[e]
  <2> DEFINE antes == {par \in Usuarios \X Usuarios : Antes(par[1], par[2])}
  <2>1. <<d, e>> \in antes
    BY <1>2
  <2>2. \A par \in antes : pos[par[1]] < pos[par[2]]
    BY DEF Numeracoes
  <2> QED
    BY <2>1, <2>2
<1>3. \A m \in 1..(Cardinality(Usuarios) + 1) :
        Cardinality({d \in Usuarios : pos[d] < m}) = m - 1
  <2> DEFINE N == Cardinality(Usuarios)
  <2>1. N \in Nat /\ pos \in Bijection(Usuarios, 1..N)
    BY <1>1, UsuariosFinitos
  <2> HIDE DEF N
  <2>2. ASSUME NEW m \in 1..(N + 1) PROVE Cardinality({d \in Usuarios : pos[d] < m}) = m - 1
    BY <2>1, Prefixo
  <2> QED
    BY <2>2 DEF N
<1>4. /\ \A e \in Usuarios : pos[e] \in 1..Cardinality(Usuarios) /\ pos[e] \in Nat
      /\ \A d, e \in Usuarios : pos[d] = pos[e] => d = e
      /\ \A k \in 1..Cardinality(Usuarios) : \E e \in Usuarios : pos[e] = k
  BY <1>1 DEF Bijection, Injection, Surjection, IsInjective
<1> QED
  BY <1>1, <1>2, <1>3, <1>4

\* Every row is on a page, every page but the last is full, and pages follow
\* the order.
LEMMA PaginasDoConjunto ==
  ASSUME TypeOK, NEW pos \in Numeracoes, NEW S \in SUBSET Usuarios
  PROVE  LET ultima == TotalPaginas(Cardinality(S)) IN
         /\ UNION {Pagina(S, pos, n) : n \in 1..ultima} = S
         /\ \A n \in 1..ultima :
              /\ n < ultima => Cardinality(Pagina(S, pos, n)) = PorPagina
              /\ \A d \in Pagina(S, pos, n), e \in Pagina(S, pos, n + 1) : pos[d] < pos[e]
<1> DEFINE N == Cardinality(S)
           ultima == TotalPaginas(N)
           P == PorPagina
           k(e) == Posto(S, pos, e)
<1>1. IsFiniteSet(S) /\ N \in Nat
  BY UsuariosFinitos, FS_Subset, FS_CardinalityType
<1>2. (\A e \in S : pos[e] \in Nat) /\ \A d, e \in S : pos[d] = pos[e] => d = e
  BY NumeracaoProperties
<1>3. /\ \A e \in S : k(e) \in 1..N
      /\ \A d, e \in S : pos[d] < pos[e] <=> k(d) < k(e)
  BY <1>1, <1>2, PostoProperties
<1>4. /\ ultima \in Nat \ {0} /\ N <= ultima * P
      /\ \A n \in Nat : n < ultima => n * P < N \/ n = 0
      /\ P \in Nat \ {0}
  BY <1>1, UltimaPagina, TamanhosAssumption
<1>5. \A n \in Nat : Pagina(S, pos, n) = {e \in S : (n - 1) * P < k(e) /\ k(e) <= n * P}
  BY DEF Pagina
<1> HIDE DEF k, ultima, N
<1>6. ASSUME NEW e \in S PROVE \E n \in 1..ultima : e \in Pagina(S, pos, n)
  <2> DEFINE q == (k(e) - 1) \div P
  <2>1. k(e) \in 1..N /\ k(e) - 1 \in Nat
    BY <1>1, <1>3
  <2>2. q \in Nat /\ q * P <= k(e) - 1 /\ k(e) - 1 < (q + 1) * P
    BY <1>4, <2>1, Divisao
  <2> HIDE DEF q
  <2>3. q < ultima
    <3>1. SUFFICES ASSUME ultima <= q PROVE FALSE
      BY <1>4, <2>2
    <3>2. ultima * P <= q * P
      BY <1>4, <2>2, <3>1, Produto
    <3>3. ultima * P \in Nat /\ q * P \in Nat
      BY <1>4, <2>2
    <3> QED
      BY <1>1, <1>4, <2>1, <2>2, <3>2, <3>3
  <2>4. (q + 1) * P \in Nat /\ k(e) <= (q + 1) * P /\ ((q + 1) - 1) * P < k(e)
    BY <1>4, <2>1, <2>2
  <2>5. q + 1 \in 1..ultima /\ q + 1 \in Nat
    BY <1>4, <2>2, <2>3
  <2> QED
    BY <1>5, <2>4, <2>5
<1>7. UNION {Pagina(S, pos, n) : n \in 1..ultima} = S
  BY <1>6, <1>5, <1>4
<1>8. ASSUME NEW n \in 1..ultima, n < ultima PROVE Cardinality(Pagina(S, pos, n)) = P
  <2>1. n \in Nat /\ n - 1 \in Nat
    BY <1>4
  <2>2. n * P < N
    BY <1>4, <1>8, <2>1
  <2>3. (n - 1) * P \in Nat /\ n * P \in Nat /\ (n - 1) * P = n * P - P
    BY <1>4, <2>1
  <2>4. (n - 1) * P <= n * P /\ n * P <= Cardinality(S)
    BY <1>1, <1>4, <2>2, <2>3 DEF N
  <2>5. Cardinality({e \in S : (n - 1) * P < Posto(S, pos, e) /\ Posto(S, pos, e) <= n * P})
          = n * P - (n - 1) * P
    BY <1>1, <1>2, <2>3, <2>4, Fatia
  <2>6. n * P - (n - 1) * P = P
    BY <1>4, <2>1, <2>3
  <2> QED
    BY <1>5, <2>1, <2>5, <2>6 DEF k
<1>9. ASSUME NEW n \in 1..ultima, NEW d \in Pagina(S, pos, n), NEW e \in Pagina(S, pos, n + 1)
      PROVE  pos[d] < pos[e]
  <2>1. n \in Nat /\ n + 1 \in Nat /\ (n + 1) - 1 = n
    BY <1>4
  <2>2. d \in S /\ e \in S /\ k(d) <= n * P /\ n * P < k(e)
    BY <1>5, <2>1
  <2>3. n * P \in Nat /\ k(d) \in Nat /\ k(e) \in Nat
    BY <1>1, <1>3, <1>4, <2>1, <2>2
  <2> QED
    BY <1>3, <2>2, <2>3
<1> QED
  BY <1>7, <1>8, <1>9 DEF N, ultima

\* Pages lose and repeat no row, whatever was searched for (ranking.rs:53).
THEOREM PaginasSempreParticionam == Spec => []PaginasParticionam
<1>1. IInv => PaginasParticionam
  BY PaginasDoConjunto DEF IInv, PaginasParticionam
<1> QED
  BY <1>1, InvarianteDasPaginas, PTL

\* A page that the count offered has rows, of everybody or of those a search
\* matched, unless a submission renamed a counted player so that the search no
\* longer matches it (ranking.rs:58, 71, palpites.rs:80).
THEOREM PaginaOferecidaSempreExiste == Spec => []PaginaOferecidaExiste
<1>1. ASSUME IInv PROVE PaginaOferecidaExiste
  <2> DEFINE contados == contagem.contados
             S == Encontrados(contagem.busca)
             c == Cardinality(contados)
             N == Cardinality(S)
             P == PorPagina
  <2> SUFFICES ASSUME contagem # Nulo, contados # {}, contagem.busca = Nomes \/ contados \subseteq S,
                      NEW pos \in Numeracoes, NEW n \in 1..TotalPaginas(c)
               PROVE  Pagina(S, pos, n) # {}
    BY DEF PaginaOferecidaExiste
  <2>1. TypeOK /\ contados \subseteq Usuarios /\ P \in Nat \ {0}
    BY <1>1, TamanhosAssumption DEF IInv, ContagemAlcancada
  <2>2. S \subseteq Usuarios /\ contados \subseteq S
    <3>1. contagem.busca = Nomes => S = Usuarios
      BY <2>1, NomesAssumption DEF Encontrados, Usuarios, TypeOK
    <3> QED
      BY <2>1, <3>1 DEF Encontrados
  <2>3. IsFiniteSet(S) /\ N \in Nat /\ c \in Nat \ {0} /\ c <= N
    <3> HIDE DEF S, contados
    <3>1. IsFiniteSet(S) /\ IsFiniteSet(contados) /\ c <= N
      BY <2>2, UsuariosFinitos, FS_Subset
    <3> QED
      BY <3>1, FS_CardinalityType, FS_EmptySet
  <2> HIDE DEF S, N, c, contados
  <2>4. TotalPaginas(c) \in Nat /\ n \in Nat /\ n - 1 \in Nat /\ n - 1 < TotalPaginas(c)
    BY <2>3, UltimaPagina
  <2>5. (n - 1) * P < c
    <3>1. CASE n - 1 = 0
      BY <2>1, <2>3, <3>1
    <3>2. CASE n - 1 # 0
      BY <2>3, <2>4, <3>2, UltimaPagina
    <3> QED
      BY <3>1, <3>2
  <2> DEFINE m == (n - 1) * P + 1
  <2>6. (n - 1) * P \in Nat /\ n * P = (n - 1) * P + P
    BY <2>1, <2>4
  <2>7. m \in 1..N /\ (n - 1) * P < m /\ m <= n * P
    BY <2>1, <2>3, <2>5, <2>6
  <2> HIDE DEF m
  <2>8. PICK e \in S : Posto(S, pos, e) = m
    <3>1. (\A e \in S : pos[e] \in Nat) /\ \A d, e \in S : pos[d] = pos[e] => d = e
      BY <2>1, <2>2, NumeracaoProperties
    <3>2. \A k \in 1..Cardinality(S) : \E e \in S : Posto(S, pos, e) = k
      BY <2>3, <3>1, PostoProperties
    <3> QED
      BY <2>7, <3>2 DEF N
  <2> QED
    BY <2>7, <2>8 DEF Pagina
<1>2. IInv => PaginaOferecidaExiste
  BY <1>1
<1> QED
  BY <1>2, InvarianteDasPaginas, PTL

-----------------------------------------------------------------------------
(* The ranking, the final classification and the podium.                    *)

\* Among players with points the numbering is their order, and nothing else.
LEMMA OrdemDosPontuados ==
  ASSUME TypeOK, NEW d \in Usuarios, NEW e \in Pontuados, d # e
  PROVE  /\ d \notin Pontuados => Antes(e, d)
         /\ Antes(d, e) => d \in Pontuados
         /\ Antes(d, e) \/ Antes(e, d)
<1>1. Total(d) \in Nat /\ Total(e) \in Nat /\ Total(e) > 0 /\ e \in Usuarios
  BY TotalProperties DEF Pontuados
<1>2. PalpitesDe(e) # {}
  BY <1>1, TotalProperties
<1>3. Antes(d, e) \/ Antes(e, d)
  BY <1>1, <1>2, AntesDistingue
<1> QED
  BY <1>1, <1>3 DEF Pontuados, Antes

\* RANK() is the best ROW_NUMBER among equals.
LEMMA PosicaoFinalMelhor ==
  ASSUME TypeOK, NEW pos \in Numeracoes, NEW e \in Pontuados
  PROVE  PosicaoFinal(e) = Min({pos[d] : d \in {x \in Usuarios : Total(x) = Total(e)}})
<1> DEFINE N == Cardinality(Usuarios)
           iguais == {x \in Usuarios : Total(x) = Total(e)}
           T == {pos[d] : d \in iguais}
           m == Min(T)
<1>1. /\ N \in Nat
      /\ \A d \in Usuarios : pos[d] \in 1..N
      /\ \A d, x \in Usuarios : Antes(d, x) => pos[d] < pos[x]
      /\ \A k \in 1..(N + 1) : Cardinality({d \in Usuarios : pos[d] < k}) = k - 1
  BY NumeracaoProperties, UsuariosFinitos
<1>2. e \in Usuarios /\ Total(e) > 0 /\ \A d \in Usuarios : Total(d) \in Nat
  BY TotalProperties DEF Pontuados
<1>3. T \in SUBSET Nat /\ T # {}
  BY <1>1, <1>2
<1>4. m \in T /\ \A y \in T : m <= y
  <2> HIDE DEF T
  <2> QED
    BY <1>3, MinimoDeNaturais
<1> HIDE DEF m
<1>5. PICK p \in iguais : pos[p] = m
  BY <1>4
<1>6. \A d \in Usuarios : Total(d) > Total(e) => d \in Pontuados /\ pos[d] < m
  BY <1>1, <1>2, <1>5 DEF Pontuados, Antes
<1>7. ASSUME NEW d \in Usuarios, pos[d] < m PROVE Total(d) > Total(e)
  <2>1. Total(d) # Total(e)
    <3> SUFFICES ASSUME Total(d) = Total(e) PROVE FALSE
      OBVIOUS
    <3>1. pos[d] \in T
      OBVIOUS
    <3>2. m \in Nat /\ pos[d] \in Nat
      BY <1>1, <1>5
    <3> HIDE DEF T
    <3>3. m <= pos[d]
      BY <1>4, <3>1
    <3> QED
      BY <1>7, <3>2, <3>3
  <2>2. ~(Total(d) < Total(e))
    <3> SUFFICES ASSUME Total(d) < Total(e) PROVE FALSE
      OBVIOUS
    <3>1. Antes(p, d)
      BY <1>2, <1>5 DEF Antes
    <3> QED
      BY <1>1, <1>5, <1>7, <3>1
  <2> QED
    BY <1>2, <2>1, <2>2
<1>8. {d \in Pontuados : Total(d) > Total(e)} = {d \in Usuarios : pos[d] < m}
  BY <1>6, <1>7 DEF Pontuados
<1>9. m \in 1..(N + 1)
  BY <1>1, <1>5
<1>10. Cardinality({d \in Usuarios : pos[d] < m}) = m - 1
  BY <1>1, <1>9, Zenon
<1>11. PosicaoFinal(e) = 1 + (m - 1)
  BY <1>8, <1>10 DEF PosicaoFinal
<1>12. PosicaoFinal(e) = m
  BY <1>9, <1>11
<1> QED
  BY <1>12 DEF m

\* LIMIT keeps the rows with the first numbers.
LEMMA FinalPorNumero ==
  ASSUME TypeOK, NEW pos \in Numeracoes
  PROVE  NaClassificacaoFinal = {e \in Pontuados : pos[e] <= NaFinal}
<1> DEFINE N == Cardinality(Usuarios)
<1>1. /\ N \in Nat
      /\ \A d \in Usuarios : pos[d] \in 1..N
      /\ \A d, x \in Usuarios : Antes(d, x) => pos[d] < pos[x]
      /\ \A k \in 1..(N + 1) : Cardinality({d \in Usuarios : pos[d] < k}) = k - 1
  BY NumeracaoProperties, UsuariosFinitos
<1>2. ASSUME NEW e \in Pontuados
      PROVE  Cardinality({d \in Pontuados : Antes(d, e)}) = pos[e] - 1
  <2>1. e \in Usuarios /\ pos[e] \in 1..(N + 1)
    BY <1>1 DEF Pontuados
  <2>2. ASSUME NEW d \in Usuarios PROVE d \in Pontuados /\ Antes(d, e) <=> pos[d] < pos[e]
    <3>1. CASE d = e
      BY <1>1, <2>1, <3>1, AntesOrdena
    <3>2. CASE d # e
      <4>1. pos[d] < pos[e] => ~Antes(e, d)
        BY <1>1, <2>1
      <4>2. Antes(d, e) => pos[d] < pos[e]
        BY <1>1, <2>1
      <4> QED
        BY <3>2, <4>1, <4>2, OrdemDosPontuados
    <3> QED
      BY <3>1, <3>2
  <2>3. {d \in Pontuados : Antes(d, e)} = {d \in Usuarios : pos[d] < pos[e]}
    BY <2>2 DEF Pontuados
  <2> QED
    BY <1>1, <2>1, <2>3, Zenon
<1>3. \A e \in Pontuados : pos[e] \in Nat /\ (pos[e] - 1 < NaFinal <=> pos[e] <= NaFinal)
  BY <1>1, TamanhosAssumption DEF Pontuados
<1> QED
  BY <1>2, <1>3 DEF NaClassificacaoFinal, Primeiros

\* The final classification is the public ranking with ties on one place
\* (admin.rs:431, 446, ranking.rs:84).
THEOREM ClassificacoesSempreConcordam == Spec => []ClassificacoesConcordam
<1>1. IInv => ClassificacoesConcordam
  BY PosicaoFinalMelhor, FinalPorNumero DEF IInv, ClassificacoesConcordam
<1> QED
  BY <1>1, InvarianteDasPaginas, PTL

-----------------------------------------------------------------------------
(* The podium.                                                              *)

\* The two ways to ask for a coupon and no unused one say the same.
LEMMA ElegibilidadeIgual == TypeOK => \A e : Elegivel(e) <=> ElegivelAoPremio(e)
<1> SUFFICES ASSUME TypeOK, NEW e PROVE Elegivel(e) <=> ElegivelAoPremio(e)
  OBVIOUS
<1> DEFINE C == CuponsDe(e)
<1>1. IsFiniteSet(C) /\ Cardinality(C) \in Nat
  BY FS_Subset, FS_CardinalityType DEF CuponsDe, TypeOK
<1> HIDE DEF C
<1>2. Cardinality(C) >= 1 <=> C # {}
  BY <1>1, FS_EmptySet
<1>3. Cardinality(C \cap utilizados) = Cardinality(C) <=> C \cap utilizados = C
  <2>1. C \cap utilizados \in SUBSET C
    OBVIOUS
  <2> QED
    BY <1>1, <2>1, FS_Subset
<1>4. C \cap utilizados = C <=> ~\E c \in C : c \notin utilizados
  OBVIOUS
<1> QED
  BY <1>2, <1>3, <1>4 DEF Elegivel, ElegivelAoPremio, C

Candidatos == {e \in Usuarios : Elegivel(e) /\ Total(e) > 0}
NoTopo == Primeiros(Candidatos, NoPodio)

\* Who stands before one of the first is one of them too, and only a full
\* podium leaves a candidate out.
LEMMA TopoProperties ==
  ASSUME TypeOK
  PROVE  /\ NoTopo \subseteq Candidatos /\ IsFiniteSet(NoTopo)
         /\ \A d \in Candidatos, e \in NoTopo : Antes(d, e) => d \in NoTopo
         /\ NoTopo # Candidatos => Cardinality(NoTopo) = NoPodio
<1> DEFINE frente(e) == {d \in Candidatos : Antes(d, e)}
           c == Cardinality(Candidatos)
<1>1. Candidatos \in SUBSET Usuarios /\ Candidatos \subseteq Pontuados
  BY DEF Candidatos, Pontuados
<1>2. PICK pos \in Bijection(Candidatos, 1..c) :
        \A d, e \in Candidatos : Antes(d, e) => pos[d] < pos[e]
  BY <1>1, NumeracaoExiste
<1>3. IsFiniteSet(Candidatos) /\ c \in Nat
  BY <1>1, NumeracaoExiste
<1>4. \A e \in Candidatos : pos[e] \in 1..c
  BY <1>2 DEF Bijection, Injection
<1>5. \A d, e \in Candidatos : Antes(d, e) <=> pos[d] < pos[e]
  <2> SUFFICES ASSUME NEW d \in Candidatos, NEW e \in Candidatos
               PROVE  Antes(d, e) <=> pos[d] < pos[e]
    OBVIOUS
  <2>1. CASE d = e
    BY <1>1, <1>4, <2>1, AntesOrdena
  <2>2. CASE d # e
    BY <1>1, <1>2, <1>4, <2>2, OrdemDosPontuados
  <2> QED
    BY <2>1, <2>2
<1>5a. ASSUME NEW m \in 1..(c + 1) PROVE Cardinality({d \in Candidatos : pos[d] < m}) = m - 1
  <2> HIDE DEF c
  <2> QED
    BY <1>3, Prefixo
<1>6. ASSUME NEW e \in Candidatos PROVE Cardinality(frente(e)) = pos[e] - 1
  <2>1. frente(e) = {d \in Candidatos : pos[d] < pos[e]}
    BY <1>5
  <2>2. pos[e] \in 1..(c + 1)
    BY <1>3, <1>4
  <2> QED
    BY <1>5a, <2>1, <2>2
<1>7. NoTopo = {e \in Candidatos : pos[e] < NoPodio + 1}
  <2>1. NoTopo = {e \in Candidatos : Cardinality(frente(e)) < NoPodio}
    BY DEF NoTopo, Primeiros
  <2>2. \A e \in Candidatos : pos[e] - 1 < NoPodio <=> pos[e] < NoPodio + 1
    BY <1>3, <1>4, TamanhosAssumption
  <2> HIDE DEF frente
  <2> QED
    BY <1>6, <2>1, <2>2
<1>8. ASSUME NEW d \in Candidatos, NEW e \in NoTopo, Antes(d, e) PROVE d \in NoTopo
  BY <1>3, <1>4, <1>5, <1>7, <1>8, TamanhosAssumption
<1>9. ASSUME NoTopo # Candidatos PROVE Cardinality(NoTopo) = NoPodio
  <2>1. PICK e \in Candidatos : ~(pos[e] < NoPodio + 1)
    BY <1>7, <1>9
  <2>2. NoPodio + 1 \in 1..(c + 1) /\ (NoPodio + 1) - 1 = NoPodio
    BY <1>3, <1>4, <2>1, TamanhosAssumption
  <2> HIDE DEF c
  <2>3. Cardinality({d \in Candidatos : pos[d] < NoPodio + 1}) = (NoPodio + 1) - 1
    BY <1>5a, <2>2
  <2> QED
    BY <1>7, <2>2, <2>3
<1>10. NoTopo \subseteq Candidatos /\ IsFiniteSet(NoTopo)
  BY <1>3, <1>7, FS_Subset
<1> QED
  BY <1>8, <1>9, <1>10

\* The rows of the podium: the first, each once, in the order.
LEMMA LinhasProperties ==
  ASSUME TypeOK
  PROVE  LET n == Cardinality(NoTopo) IN
         /\ n \in Nat
         /\ LinhasDoPodio \in Bijection(1..n, NoTopo)
         /\ \A i, k \in 1..n : i < k => ~Antes(LinhasDoPodio[k], LinhasDoPodio[i])
<1> DEFINE n == Cardinality(NoTopo)
           Ordenada(l) == \A i, k \in DOMAIN l : i < k => ~Antes(l[k], l[i])
<1>1. IsFiniteSet(NoTopo) /\ n \in Nat /\ NoTopo \in SUBSET Usuarios
  BY TopoProperties, FS_CardinalityType DEF Candidatos
<1>2. PICK pos \in Bijection(NoTopo, 1..n) : \A d, e \in NoTopo : Antes(d, e) => pos[d] < pos[e]
  BY <1>1, NumeracaoExiste
<1>3. /\ \A e \in NoTopo : pos[e] \in 1..n
      /\ \A k \in 1..n : \E e \in NoTopo : pos[e] = k
  BY <1>2 DEF Bijection, Injection, Surjection
<1> DEFINE f == [k \in 1..n |-> CHOOSE e \in NoTopo : pos[e] = k]
<1>4. \A k \in 1..n : f[k] \in NoTopo /\ pos[f[k]] = k
  BY <1>3
<1>5. f \in SetToSeqs(NoTopo) /\ Ordenada(f)
  <2>1. f \in [1..n -> NoTopo] /\ DOMAIN f = 1..n
    BY <1>4
  <2> HIDE DEF f
  <2>2. f \in SetToSeqs(NoTopo)
    BY <1>4, <2>1 DEF SetToSeqs
  <2>3. Ordenada(f)
    BY <1>1, <1>2, <1>4, <2>1
  <2> QED
    BY <2>2, <2>3
<1>6. LinhasDoPodio = CHOOSE l \in SetToSeqs(NoTopo) : Ordenada(l)
  BY DEF LinhasDoPodio, NoTopo, Candidatos
<1>7. LinhasDoPodio \in SetToSeqs(NoTopo) /\ Ordenada(LinhasDoPodio)
  <2> HIDE DEF f, Ordenada
  <2> QED
    BY <1>5, <1>6
<1>8. /\ LinhasDoPodio \in [1..n -> NoTopo]
      /\ \A i, k \in 1..n : i # k => LinhasDoPodio[i] # LinhasDoPodio[k]
  BY <1>7 DEF SetToSeqs
<1>9. LinhasDoPodio \in Injection(1..n, NoTopo)
  BY <1>8 DEF Injection, IsInjective
<1>10. Cardinality(1..n) = Cardinality(NoTopo)
  BY <1>1, FS_Interval
<1>11. LinhasDoPodio \in Surjection(1..n, NoTopo)
  BY <1>1, <1>9, <1>10, FS_Injection
<1> QED
  BY <1>1, <1>7, <1>8, <1>9, <1>11 DEF Bijection

\* The loop numbers each row by how many candidates have more points, and its
\* recursion defines that function.
LEMMA PosicoesDoPodio ==
  ASSUME TypeOK
  PROVE  LET linhas == LinhasDoPodio IN
         /\ DOMAIN Podio = DOMAIN linhas
         /\ \A i \in DOMAIN linhas :
              /\ Podio[i].jogador = linhas[i]
              /\ Podio[i].posicao = 1 + Cardinality({d \in Candidatos : Total(d) > Total(linhas[i])})
              /\ Podio[i].campeao <=> Total(linhas[i]) = Total(linhas[1])
<1> DEFINE n == Cardinality(NoTopo)
           linhas == LinhasDoPodio
           acima(e) == {d \in Candidatos : Total(d) > Total(e)}
           repete(i) == i > 1 /\ Total(linhas[i]) = Total(linhas[i - 1])
           conta == [i \in DOMAIN linhas |-> 1 + Cardinality(acima(linhas[i]))]
           posicao == CHOOSE f : f = [i \in DOMAIN linhas |-> IF repete(i) THEN f[i - 1] ELSE i]
<1>1. /\ n \in Nat
      /\ linhas \in Bijection(1..n, NoTopo)
      /\ \A i, k \in 1..n : i < k => ~Antes(linhas[k], linhas[i])
  BY LinhasProperties
<1>2. /\ DOMAIN linhas = 1..n
      /\ \A i \in 1..n : linhas[i] \in NoTopo
      /\ \A i, k \in 1..n : linhas[i] = linhas[k] => i = k
      /\ \A e \in NoTopo : \E i \in 1..n : linhas[i] = e
  BY <1>1 DEF Bijection, Injection, Surjection, IsInjective
<1>3. /\ NoTopo \subseteq Candidatos /\ IsFiniteSet(NoTopo)
      /\ \A d \in Candidatos, e \in NoTopo : Antes(d, e) => d \in NoTopo
      /\ Candidatos \subseteq Usuarios
      /\ \A e \in Usuarios : Total(e) \in Nat
  BY TopoProperties, TotalProperties DEF Candidatos
<1>4. \A i, k \in 1..n : i < k => Total(linhas[k]) <= Total(linhas[i])
  BY <1>1, <1>2, <1>3 DEF Antes
<1> HIDE DEF linhas, n
<1>5. ASSUME NEW i \in 1..n, ~repete(i) PROVE Cardinality(acima(linhas[i])) = i - 1
  <2>1. ASSUME NEW d \in acima(linhas[i]) PROVE \E k \in 1..(i - 1) : linhas[k] = d
    <3>1. d \in Candidatos /\ Antes(d, linhas[i])
      BY <1>2, <1>3 DEF Antes
    <3>2. PICK k \in 1..n : linhas[k] = d
      BY <1>2, <1>3, <3>1
    <3>3. ~(k > i) /\ k # i
      BY <1>2, <1>3, <1>4, <2>1, <3>2
    <3> QED
      BY <1>1, <3>2, <3>3
  <2>2. ASSUME NEW k \in 1..(i - 1) PROVE linhas[k] \in acima(linhas[i])
    <3>1. k \in 1..n /\ i - 1 \in 1..n /\ i > 1 /\ i - 1 < i
      BY <1>1
    <3>2. Total(linhas[i]) < Total(linhas[i - 1])
      BY <1>2, <1>3, <1>4, <1>5, <3>1
    <3>3. Total(linhas[i - 1]) <= Total(linhas[k])
      BY <1>2, <1>3, <1>4, <3>1
    <3> QED
      BY <1>2, <1>3, <3>1, <3>2, <3>3
  <2> DEFINE g == [k \in 1..(i - 1) |-> linhas[k]]
  <2>3. i - 1 \in Nat /\ \A k \in 1..(i - 1) : k \in 1..n
    BY <1>1
  <2> HIDE DEF acima
  <2>4. g \in Bijection(1..(i - 1), acima(linhas[i]))
    BY <1>2, <2>1, <2>2, <2>3 DEF Bijection, Injection, Surjection, IsInjective
  <2>5. IsFiniteSet(1..(i - 1)) /\ Cardinality(1..(i - 1)) = i - 1
    BY <2>3, FS_Interval
  <2> HIDE DEF g
  <2>6. ExistsBijection(1..(i - 1), acima(linhas[i]))
    BY <2>4 DEF ExistsBijection
  <2> QED
    BY <2>5, <2>6, FS_Bijection
<1>6. conta = [i \in DOMAIN linhas |-> IF repete(i) THEN conta[i - 1] ELSE i]
  <2>1. ASSUME NEW i \in 1..n PROVE conta[i] = IF repete(i) THEN conta[i - 1] ELSE i
    <3>1. CASE repete(i)
      <4>1. i - 1 \in 1..n /\ acima(linhas[i]) = acima(linhas[i - 1])
        BY <1>1, <3>1
      <4> HIDE DEF acima, repete
      <4> QED
        BY <1>2, <3>1, <4>1
    <3>2. CASE ~repete(i)
      <4>1. Cardinality(acima(linhas[i])) = i - 1 /\ i \in Nat
        BY <1>1, <1>5, <3>2
      <4> HIDE DEF acima, repete
      <4> QED
        BY <1>2, <3>2, <4>1
    <3> QED
      BY <3>1, <3>2
  <2>2. conta = [i \in DOMAIN linhas |-> conta[i]]
    OBVIOUS
  <2> HIDE DEF conta, repete
  <2> QED
    BY <1>2, <2>1, <2>2
<1>7. posicao = [i \in DOMAIN linhas |-> IF repete(i) THEN posicao[i - 1] ELSE i]
  <2> HIDE DEF conta, repete
  <2> QED
    BY <1>6
<1>8. Podio = [i \in DOMAIN linhas |-> [jogador |-> linhas[i], posicao |-> posicao[i],
                                         campeao |-> Total(linhas[i]) = Total(linhas[1])]]
  BY DEF Podio, linhas
<1> HIDE DEF posicao
<1>9. ASSUME NEW i \in 1..n PROVE posicao[i] = conta[i]
  <2> DEFINE ruins == {k \in 1..n : posicao[k] # conta[k]}
  <2>1. SUFFICES ASSUME ruins # {} PROVE FALSE
    OBVIOUS
  <2> HIDE DEF conta
  <2>2. PICK m \in 1..n : posicao[m] # conta[m] /\ \A k \in 1..n : posicao[k] # conta[k] => m <= k
    <3>1. ruins \in SUBSET Nat
      OBVIOUS
    <3> QED
      BY <2>1, <3>1, MenorNatural
  <2>3. /\ posicao[m] = IF repete(m) THEN posicao[m - 1] ELSE m
        /\ conta[m] = IF repete(m) THEN conta[m - 1] ELSE m
    <3> HIDE DEF repete
    <3> QED
      BY <1>2, <1>6, <1>7
  <2>4. repete(m) /\ posicao[m - 1] # conta[m - 1]
    BY <2>2, <2>3
  <2>5. m - 1 \in 1..n /\ ~(m <= m - 1)
    BY <1>1, <2>4
  <2> QED
    BY <2>2, <2>4, <2>5
<1>10. ASSUME NEW i \in 1..n
       PROVE  /\ Podio[i].jogador = linhas[i]
              /\ Podio[i].posicao = 1 + Cardinality(acima(linhas[i]))
              /\ Podio[i].campeao <=> Total(linhas[i]) = Total(linhas[1])
  <2>1. posicao[i] = 1 + Cardinality(acima(linhas[i]))
    BY <1>2, <1>9
  <2> HIDE DEF acima, conta
  <2> QED
    BY <1>2, <1>8, <2>1
<1> QED
  BY <1>2, <1>8, <1>10 DEF linhas

\* The podium and the final classification, written twice, agree on who may win
\* (paginas.rs:137-177, admin.rs:427, 440).
THEOREM PodioSempreConcorda == Spec => []PodioConcorda
<1>1. ASSUME TypeOK PROVE PodioConcorda
  <2> DEFINE n == Cardinality(NoTopo)
             linhas == LinhasDoPodio
             elegiveis == {x \in Usuarios : ElegivelAoPremio(x)}
             totais == {Total(d) : d \in elegiveis}
  <2>1. /\ n \in Nat
        /\ linhas \in Bijection(1..n, NoTopo)
        /\ \A i, k \in 1..n : i < k => ~Antes(linhas[k], linhas[i])
    BY <1>1, LinhasProperties
  <2>2. /\ DOMAIN linhas = 1..n
        /\ \A i \in 1..n : linhas[i] \in NoTopo
        /\ \A e \in NoTopo : \E i \in 1..n : linhas[i] = e
    BY <2>1 DEF Bijection, Injection, Surjection
  <2>3. /\ NoTopo \subseteq Candidatos
        /\ \A d \in Candidatos, e \in NoTopo : Antes(d, e) => d \in NoTopo
        /\ NoTopo # Candidatos => n = NoPodio
        /\ \A e \in Usuarios : Total(e) \in Nat
    BY <1>1, TopoProperties, TotalProperties
  <2>4. /\ Candidatos = {e \in Pontuados : ElegivelAoPremio(e)}
        /\ Candidatos = {e \in elegiveis : Total(e) > 0}
    BY <1>1, ElegibilidadeIgual DEF Candidatos, Pontuados
  <2>5. /\ DOMAIN Podio = 1..n
        /\ \A i \in 1..n :
             /\ Podio[i].jogador = linhas[i]
             /\ Podio[i].posicao = 1 + Cardinality({d \in Candidatos : Total(d) > Total(linhas[i])})
             /\ Podio[i].campeao <=> Total(linhas[i]) = Total(linhas[1])
    BY <1>1, <2>2, PosicoesDoPodio
  <2> HIDE DEF linhas, n
  <2>6. ASSUME NEW e \in Candidatos
        PROVE  Campeao(e) <=> \A d \in elegiveis : Total(d) <= Total(e)
    <3>1. totais \in SUBSET Nat /\ Total(e) \in totais /\ Total(e) \in Nat
      BY <2>3, <2>4
    <3>2. Campeao(e) <=> Total(e) = Max(totais)
      BY <2>4 DEF Campeao
    <3>3. ASSUME \A d \in elegiveis : Total(d) <= Total(e) PROVE Total(e) = Max(totais)
      <4>1. \A y \in totais : y <= Total(e)
        BY <3>3
      <4> HIDE DEF totais
      <4>2. Max(totais) \in totais /\ \A y \in totais : Max(totais) >= y
        BY <3>1, <4>1, MaximoLimitado
      <4>3. Max(totais) <= Total(e) /\ Max(totais) >= Total(e) /\ Max(totais) \in Nat
        BY <3>1, <4>1, <4>2
      <4> QED
        BY <3>1, <4>3
    <3>4. ASSUME Total(e) = Max(totais) PROVE \A d \in elegiveis : Total(d) <= Total(e)
      <4>1. IsFiniteSet(totais)
        <5> DEFINE f == [d \in elegiveis |-> Total(d)]
        <5>1. IsFiniteSet(elegiveis)
          BY UsuariosFinitos, FS_Subset
        <5>2. f \in Surjection(elegiveis, totais)
          BY DEF Surjection
        <5> HIDE DEF f, elegiveis, totais
        <5> QED
          BY <5>1, <5>2, FS_Surjection
      <4>2. \A y \in totais : Max(totais) >= y
        <5> HIDE DEF totais
        <5> QED
          BY <3>1, <4>1, MaximoDeFinito
      <4> QED
        BY <2>3, <3>4, <4>2
    <3> QED
      BY <3>2, <3>3, <3>4
  <2>7. ASSUME NEW i \in 1..n
        PROVE  /\ linhas[i] \in Candidatos
               /\ Total(linhas[i]) = Total(linhas[1]) <=> Campeao(linhas[i])
    <3>1. 1 \in 1..n /\ linhas[i] \in Candidatos /\ linhas[1] \in Candidatos
      BY <2>1, <2>2, <2>3
    <3>2. ASSUME NEW d \in elegiveis PROVE Total(d) <= Total(linhas[1])
      <4> SUFFICES ASSUME Total(d) > Total(linhas[1]) PROVE FALSE
        BY <2>3, <2>4, <3>1
      <4>1. d \in Candidatos /\ Antes(d, linhas[1])
        BY <2>3, <2>4, <3>1, <3>2 DEF Antes
      <4>2. PICK k \in 1..n : linhas[k] = d
        BY <2>2, <2>3, <3>1, <4>1
      <4>3. k # 1
        BY <2>3, <2>4, <3>1, <4>2
      <4> QED
        BY <2>1, <3>1, <4>1, <4>2, <4>3
    <3>3. Total(linhas[i]) = Total(linhas[1]) => Campeao(linhas[i])
      BY <2>6, <3>1, <3>2
    <3>4. Campeao(linhas[i]) => Total(linhas[i]) = Total(linhas[1])
      BY <2>3, <2>4, <2>6, <3>1, <3>2
    <3> QED
      BY <3>1, <3>3, <3>4
  <2>8. Len(Podio) = n
    BY <2>1, <2>5
  <2>9. ASSUME NEW e \in Pontuados, Campeao(e), e \notin NoTopo
        PROVE  n = NoPodio /\ \A d \in NoTopo : Campeao(d)
    <3>1. e \in Candidatos
      BY <2>4, <2>9 DEF Campeao
    <3>2. ASSUME NEW d \in NoTopo PROVE Campeao(d)
      <4>1. d \in Candidatos /\ Total(d) \in Nat /\ Total(e) \in Nat
        BY <2>3, <2>4, <3>1
      <4>2. ~(Total(d) < Total(e))
        BY <2>3, <2>9, <3>1, <4>1 DEF Antes
      <4> QED
        BY <2>3, <2>4, <2>6, <2>9, <3>1, <4>1, <4>2
    <3> QED
      BY <2>3, <2>9, <3>1, <3>2
  <2> DEFINE noPodio == {Podio[i].jogador : i \in DOMAIN Podio}
  <2>10. noPodio = NoTopo
    <3>1. noPodio = {linhas[i] : i \in 1..n}
      BY <2>5
    <3> HIDE DEF noPodio
    <3> QED
      BY <2>2, <3>1
  <2>11. ASSUME NEW i \in DOMAIN Podio
         PROVE  LET e == Podio[i].jogador IN
                /\ e \in Pontuados /\ ElegivelAoPremio(e)
                /\ Podio[i].campeao <=> Campeao(e)
                /\ Podio[i].posicao = 1 + Cardinality(
                     {d \in Pontuados : ElegivelAoPremio(d) /\ Total(d) > Total(e)})
    <3>1. i \in 1..n /\ Podio[i].jogador = linhas[i] /\ linhas[i] \in Candidatos
      BY <2>5, <2>7
    <3>2. linhas[i] \in Pontuados /\ ElegivelAoPremio(linhas[i])
      BY <2>4, <3>1
    <3>3. Podio[i].campeao <=> Campeao(linhas[i])
      BY <2>5, <2>7, <3>1
    <3>4. {d \in Candidatos : Total(d) > Total(linhas[i])}
            = {d \in Pontuados : ElegivelAoPremio(d) /\ Total(d) > Total(linhas[i])}
      BY <2>4
    <3>5. Podio[i].posicao = 1 + Cardinality({d \in Candidatos : Total(d) > Total(linhas[i])})
      BY <2>5, <3>1
    <3> QED
      BY <3>1, <3>2, <3>3, <3>4, <3>5
  <2> HIDE DEF noPodio
  <2>12. \A e \in Pontuados : Campeao(e) /\ e \notin noPodio =>
           Len(Podio) = NoPodio /\ \A d \in noPodio : Campeao(d)
    BY <2>8, <2>9, <2>10
  <2> QED
    BY <2>11, <2>12 DEF PodioConcorda, noPodio
<1>2. IInv => PodioConcorda
  BY <1>1 DEF IInv
<1> QED
  BY <1>2, InvarianteDasPaginas, PTL

=============================================================================
