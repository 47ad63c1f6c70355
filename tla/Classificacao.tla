--------------------------- MODULE Classificacao ---------------------------
(* The pages that read the tables: the public ranking in pages, the podium  *)
(* of the home page, the final classification and the hit rate of the       *)
(* administrators.  Each is computed by a query of its own, partly in SQL   *)
(* and partly in Rust, over the same guesses and coupons.                   *)
(*                                                                          *)
(* The tables are written here by whole requests, or by what an interrupted *)
(* one leaves behind: how the statements interleave is module Bolao, and    *)
(* that readers see a result whole is ImplementaPremiacao.                  *)
EXTENDS Pontuacao, SequencesExt

CONSTANTS
  Jogadores,   \* who may send guesses
  Jogos,
  Nomes,       \* names in their order, Nomes \subseteq Nat
  Buscas,      \* search texts, each the set of names it occurs in; Nomes is ''
  Palpites,    \* scores a player may guess
  Resultados,  \* scores an administrator may send
  NoPodio,     \* LIMIT of the podium, 3 in the code
  NaFinal,     \* LIMIT of the final classification, 100 in the code
  PorPagina,   \* rows of a ranking page, 20 in the code
  MaxPalpites, \* bound: the last time at which a guess is stored
  MaxUsos,     \* bound: how many coupons are used
  Nulo

ASSUME TamanhosAssumption == NoPodio \in Nat \ {0} /\ NaFinal \in Nat \ {0} /\ PorPagina \in Nat \ {0}
ASSUME NomesAssumption == Nomes \subseteq Nat /\ Nulo \notin Nat /\ Buscas \subseteq SUBSET Nomes
ASSUME JogadoresAssumption == IsFiniteSet(Jogadores)

VARIABLES
  nome,       \* table usuarios: player -> name, Nulo without a row
  palpites,   \* table palpites: criado_em -> row, the times counted from 1
  cupons,     \* table cupons: one of a player and a game (see Bolao for two)
  utilizados, \* the coupons marked as used
  situacao,   \* column jogos.status
  contagem    \* a ranking request between its two queries: the text it searches
              \* for and the rows it counted (history: the code has their number)

tabelas == <<nome, palpites, cupons, utilizados, situacao>>
vars == <<nome, palpites, cupons, utilizados, situacao, contagem>>

-----------------------------------------------------------------------------
(* The requests that write.                                                 *)

\* Only the order of the times matters: that of a deleted row may come back.
Fim == Max(DOMAIN palpites \cup {0})
Agora == Fim + 1
Tem(e, j) == \E i \in DOMAIN palpites : palpites[i].jogador = e /\ palpites[i].jogo = j
Existe(j) == situacao[j] # "excluido"

\* A submission: the upsert of the player, and then the guess and its coupon,
\* the guess alone, or nothing more.
Palpita(e, j, n) ==
  /\ Existe(j)
  /\ nome' = [nome EXCEPT ![e] = n]
  /\ \/ UNCHANGED <<palpites, cupons>>
     \/ /\ ~Tem(e, j) /\ Agora <= MaxPalpites
        /\ \E p \in Palpites :
             palpites' = [i \in DOMAIN palpites \cup {Agora} |->
               IF i = Agora THEN [jogador |-> e, jogo |-> j, placar |-> p, pontos |-> 0]
               ELSE palpites[i]]
        /\ cupons' \in {cupons, cupons \cup {<<e, j>>}}
  /\ UNCHANGED <<utilizados, situacao, contagem>>

\* A result or a correction: points for all guesses of the game, and a coupon
\* for the exact ones that have none.
Apura(j, p) ==
  /\ Existe(j)
  /\ situacao' = [situacao EXCEPT ![j] = "encerrado"]
  /\ palpites' = [i \in DOMAIN palpites |->
       IF palpites[i].jogo = j
       THEN [palpites[i] EXCEPT !.pontos = CalcularPontos(palpites[i].placar, p)]
       ELSE palpites[i]]
  /\ cupons' = cupons \cup
       {<<linha.jogador, j>> : linha \in {l \in Range(palpites) : l.jogo = j /\ l.placar = p}}
  /\ UNCHANGED <<nome, utilizados, contagem>>

\* The activation of a finished game: points and coupons stay.
Reativa(j) ==
  /\ situacao[j] = "encerrado"
  /\ situacao' = [situacao EXCEPT ![j] = "ativo"]
  /\ UNCHANGED <<nome, palpites, cupons, utilizados, contagem>>

\* Mutant: no ON DELETE CASCADE for the guesses.
ExcluiSoOJogo(j) ==
  /\ Existe(j)
  /\ situacao' = [situacao EXCEPT ![j] = "excluido"]
  /\ UNCHANGED <<nome, palpites, cupons, utilizados, contagem>>

\* The deletion of a game takes its guesses; its coupons stay with the player.
Exclui(j) ==
  /\ Existe(j)
  /\ situacao' = [situacao EXCEPT ![j] = "excluido"]
  /\ palpites' = [i \in {k \in DOMAIN palpites : palpites[k].jogo # j} |-> palpites[i]]
  /\ UNCHANGED <<nome, cupons, utilizados, contagem>>

Usa(c) ==
  /\ c \in cupons
  /\ Cardinality(utilizados) < MaxUsos
  /\ utilizados' = utilizados \cup {c}
  /\ UNCHANGED <<nome, palpites, cupons, situacao, contagem>>

-----------------------------------------------------------------------------
(* What the queries share.                                                  *)

Usuarios == {e \in Jogadores : nome[e] # Nulo}
PalpitesDe(e) == {i \in DOMAIN palpites : palpites[i].jogador = e}
Total(e) ==
  LET valor(i) ==
        IF i \in DOMAIN palpites /\ palpites[i].jogador = e THEN palpites[i].pontos ELSE 0
      ate[i \in 0..Fim] == IF i = 0 THEN 0 ELSE ate[i - 1] + valor(i)
  IN  ate[Fim]
\* MAX(criado_em), 0 for NULLS LAST.
Ultimo(e) == Max(PalpitesDe(e) \cup {0})
CuponsDe(e) == {c \in cupons : c[1] = e}

\* Mutant: ties are broken by name at once.
SemUltimo(d, e) == Total(d) > Total(e) \/ (Total(d) = Total(e) /\ nome[d] < nome[e])

\* More points first, then the latest guess, then the name.
Antes(d, e) ==
  LET diferenca == Total(d) - Total(e) IN
  \/ diferenca > 0
  \/ /\ diferenca = 0
     /\ \/ Ultimo(d) > Ultimo(e)
        \/ Ultimo(d) = Ultimo(e) /\ nome[d] < nome[e]

\* The first `n` of `S` in that order.
Primeiros(S, n) == {e \in S : Cardinality({d \in S : Antes(d, e)}) < n}

-----------------------------------------------------------------------------
(* GET /api/ranking.                                                        *)

\* ROW_NUMBER() OVER that order: any numbering that respects it.
Numeracoes ==
  LET antes == {par \in Usuarios \X Usuarios : Antes(par[1], par[2])}
  IN  {pos \in Bijection(Usuarios, 1..Cardinality(Usuarios)) :
         \A par \in antes : pos[par[1]] < pos[par[2]]}

\* The place of a row among those that match the search.
Posto(S, pos, e) == Cardinality({d \in S : pos[d] <= pos[e]})

\* Mutant: pages counted from 0.
PaginaDoZero(S, pos, n) ==
  {e \in S : LET k == Posto(S, pos, e) IN
               n * PorPagina < k /\ k <= (n + 1) * PorPagina}

\* LIMIT and OFFSET over the rows `S` that match the search.
Pagina(S, pos, n) ==
  {e \in S : LET k == Posto(S, pos, e) IN
               (n - 1) * PorPagina < k /\ k <= n * PorPagina}

\* Mutant: integer division and one more.
PaginasDemais(total) == total \div PorPagina + 1

\* ceil(total / per_page), at least 1.
TotalPaginas(total) == Max({1, (total + PorPagina - 1) \div PorPagina})

\* The rows that a search text matches.  It is compared with name, phone and
\* e-mail; the phone is rewritten together with the name.
Encontrados(busca) == {e \in Usuarios : nome[e] \in busca}

\* First query.
Conta(busca) ==
  /\ contagem = Nulo
  /\ contagem' = [busca |-> busca, contados |-> Encontrados(busca)]
  /\ UNCHANGED tabelas

\* Second query, which matches anew: the rows of the page, and the answer.
Responde ==
  /\ contagem # Nulo
  /\ contagem' = Nulo
  /\ UNCHANGED tabelas

-----------------------------------------------------------------------------
(* The podium of the home page: SQL up to the rows, Rust for the rest.      *)

\* Mutant: one used coupon is enough.
UsouAlgum(e) == \E c \in CuponsDe(e) : c \in utilizados

Elegivel(e) == CuponsDe(e) # {} /\ ~\E c \in CuponsDe(e) : c \notin utilizados

LinhasDoPodio ==
  LET candidatos == {e \in Usuarios : Elegivel(e) /\ Total(e) > 0}
  IN  CHOOSE linhas \in SetToSeqs(Primeiros(candidatos, NoPodio)) :
        \A i, k \in DOMAIN linhas : i < k => ~Antes(linhas[k], linhas[i])

\* The loop over the rows: a new position only when the points change; the
\* champions are those with the points of the first row.
Podio ==
  LET linhas == LinhasDoPodio
      posicao[i \in DOMAIN linhas] ==
        IF i > 1 /\ Total(linhas[i]) = Total(linhas[i - 1]) THEN posicao[i - 1] ELSE i
  IN  [i \in DOMAIN linhas |-> [jogador |-> linhas[i], posicao |-> posicao[i],
                                campeao |-> Total(linhas[i]) = Total(linhas[1])]]

-----------------------------------------------------------------------------
(* GET /admin/classificacao-final and the hit rate of GET /admin/metricas.  *)

ElegivelAoPremio(e) ==
  LET cuponsTotal == Cardinality(CuponsDe(e))
      cuponsUtilizados == Cardinality(CuponsDe(e) \cap utilizados)
  IN  cuponsTotal >= 1 /\ cuponsUtilizados = cuponsTotal

Campeao(e) ==
  /\ ElegivelAoPremio(e)
  /\ Total(e) > 0
  /\ Total(e) = Max({Total(d) : d \in {x \in Usuarios : ElegivelAoPremio(x)}})

Pontuados == {e \in Usuarios : Total(e) > 0}

\* Mutant: DENSE_RANK instead of RANK.
PosicaoDensa(e) == 1 + Cardinality({Total(d) : d \in {x \in Pontuados : Total(x) > Total(e)}})

\* RANK() OVER (ORDER BY total_pontos DESC).
PosicaoFinal(e) == 1 + Cardinality({d \in Pontuados : Total(d) > Total(e)})

NaClassificacaoFinal == Primeiros(Pontuados, NaFinal)

Exatos == {i \in DOMAIN palpites : palpites[i].pontos = 10}

Apurados == {i \in DOMAIN palpites : situacao[palpites[i].jogo] = "encerrado"}

\* ROUND(100.0 * exact / finished), 0 when nothing is finished.
TaxaDeAcerto ==
  LET e == Cardinality(Exatos)
      a == Cardinality(Apurados)
  IN  IF a = 0 THEN 0 ELSE (200 * e + a) \div (2 * a)

-----------------------------------------------------------------------------
Init ==
  /\ nome = [e \in Jogadores |-> Nulo]
  /\ palpites = [i \in {} |-> Nulo]
  /\ cupons = {}
  /\ utilizados = {}
  /\ situacao = [j \in Jogos |-> "ativo"]
  /\ contagem = Nulo

Next ==
  \/ \E j \in Jogos : \/ \E e \in Jogadores : \E n \in Nomes : Palpita(e, j, n)
                      \/ \E p \in Resultados : Apura(j, p)
                      \/ Reativa(j) \/ Exclui(j)
  \/ \E c \in cupons : Usa(c)
  \/ \E busca \in Buscas : Conta(busca)
  \/ Responde

Spec == Init /\ [][Next]_vars

-----------------------------------------------------------------------------
(* The inductive invariant.                                                 *)

Linhas == [jogador : Jogadores, jogo : Jogos, placar : Palpites, pontos : {0, 5, 10}]

\* Coupons are only marked once they exist.
TypeOK ==
  /\ nome \in [Jogadores -> Nomes \cup {Nulo}]
  /\ DOMAIN palpites \subseteq Nat \ {0} /\ IsFiniteSet(DOMAIN palpites)
  /\ \A i \in DOMAIN palpites : palpites[i] \in Linhas
  /\ cupons \subseteq Jogadores \X Jogos /\ IsFiniteSet(cupons)
  /\ utilizados \subseteq cupons
  /\ situacao \in [Jogos -> {"ativo", "encerrado", "excluido"}]
  /\ contagem = Nulo \/ contagem \in [busca : Buscas, contados : SUBSET Jogadores]

\* No guess outlives its game (ON DELETE CASCADE).
PalpiteTemJogo == \A i \in DOMAIN palpites : Existe(palpites[i].jogo)

\* Players are never deleted: who was counted is still there, renamed perhaps.
ContagemAlcancada == contagem # Nulo => contagem.contados \subseteq Usuarios

IInv == TypeOK /\ PalpiteTemJogo /\ ContagemAlcancada

-----------------------------------------------------------------------------
(* What the pages promise together.  `contagem = Nulo` only avoids saying   *)
(* the same again while a request is between its queries.                   *)

\* Pages of one numbering cut what a search matched: every row is on exactly
\* one of the pages 1..TotalPaginas, the others are full before it, and no
\* page goes back in the order (ranking.rs:53, 106-107, 123).
PaginasParticionam ==
  contagem = Nulo => \A pos \in Numeracoes : \A S \in SUBSET Usuarios :
    LET ultima == TotalPaginas(Cardinality(S)) IN
    /\ UNION {Pagina(S, pos, n) : n \in 1..ultima} = S
    /\ \A n \in 1..ultima :
         /\ n < ultima => Cardinality(Pagina(S, pos, n)) = PorPagina
         /\ \A d \in Pagina(S, pos, n), e \in Pagina(S, pos, n + 1) : pos[d] < pos[e]

\* A page that the count offered has rows when the second query reads it, since
\* nothing deletes a player.  With a search text that needs every player it
\* counted to match still: a submission may have renamed one in between, and
\* the last page is then empty (ranking.rs:58, 71, palpites.rs:80).
PaginaOferecidaExiste ==
  contagem # Nulo /\ contagem.contados # {} =>
    LET encontrados == Encontrados(contagem.busca) IN
    contagem.busca = Nomes \/ contagem.contados \subseteq encontrados =>
      \A pos \in Numeracoes, n \in 1..TotalPaginas(Cardinality(contagem.contados)) :
        Pagina(encontrados, pos, n) # {}

\* "Desempate estável" (ranking.rs:48): players who have guessed are told apart
\* by points and last guess, so two requests never number them differently;
\* only players without any guess may share name and place.
DesempateEstavel ==
  \A d, e \in Usuarios :
    d # e /\ ~Antes(d, e) /\ ~Antes(e, d) => PalpitesDe(d) = {} /\ PalpitesDe(e) = {}

\* The final classification of the organisers is the public ranking with ties
\* on one place: the position is the best ROW_NUMBER among equals, and the list
\* holds the same players in the same order (admin.rs:431, 446, ranking.rs:84).
ClassificacoesConcordam ==
  contagem = Nulo => \A pos \in Numeracoes :
    /\ \A e \in Pontuados :
         PosicaoFinal(e) = Min({pos[d] : d \in {x \in Usuarios : Total(x) = Total(e)}})
    /\ NaClassificacaoFinal = {e \in Pontuados : pos[e] <= NaFinal}

\* The podium and the final classification were written twice and agree on who
\* may win: same players, same champions, positions among the eligible; a
\* champion is missing only from a podium full of champions (paginas.rs:137-177,
\* admin.rs:427, 440).
PodioConcorda ==
  LET linhas == Podio
      noPodio == {linhas[i].jogador : i \in DOMAIN linhas}
  IN  /\ \A i \in DOMAIN linhas :
           LET e == linhas[i].jogador IN
           /\ e \in Pontuados /\ ElegivelAoPremio(e)
           /\ linhas[i].campeao <=> Campeao(e)
           /\ linhas[i].posicao = 1 + Cardinality(
                {d \in Pontuados : ElegivelAoPremio(d) /\ Total(d) > Total(e)})
      /\ \A e \in Pontuados : Campeao(e) /\ e \notin noPodio =>
           Len(linhas) = NoPodio /\ \A d \in noPodio : Campeao(d)

-----------------------------------------------------------------------------
(* A claim that the code does not keep.                                     *)

\* "% de palpites que cravaram o placar exato [...] entre os palpites de jogos já
\* encerrados" (admin.rs:357-358), "Percentual de palpites [...] entre os palpites
\* já apurados" (admin.rs:319).  A finished game that is activated again leaves
\* the denominator, and its exact guesses stay in the numerator (admin.rs:362).
TaxaEhPercentual == TaxaDeAcerto <= 100

=============================================================================
