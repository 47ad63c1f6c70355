----------------------------- MODULE MCServidor -----------------------------
(* Instances of the parts of the server that share no state.  A behaviour   *)
(* is about one of them and the others keep their first values:             *)
(*                                                                          *)
(*   regras     a guess against a score that is announced goal by goal and  *)
(*              corrected the other way; every pair of small scores is one  *)
(*              state;                                                      *)
(*   jogos      the tables that the pages of Classificacao read, with all   *)
(*              games and used coupons, and namesakes only;                 *)
(*   nomes      the same tables with one game, while players are renamed    *)
(*              and a ranking request is between its two queries;           *)
(*   limitador  the calls of RateLimit.                                     *)
EXTENDS Classificacao, RateLimit

CONSTANTS
  Limite,    \* bound: goals per side
  ip1, ip2   \* the calls 1, 2, ... come from one, call 0 that purges the map
             \* in between from the other

ASSUME LimiteAssumption == Limite \in Nat

VARIABLES modo, palpite, resultado

daRegra == <<palpite, resultado>>
MCvars == <<modo, daRegra, tabelas, contagem, varsLimitador>>

MCInit ==
  /\ Init /\ InitLimitador
  /\ modo \in {"regras", "jogos", "nomes", "limitador"}
  /\ palpite \in (0..Limite) \X (0..Limite)
  /\ modo # "regras" => palpite = <<0, 0>>
  /\ resultado = <<0, 0>>

GolA == resultado[1] < Limite /\ resultado' = <<resultado[1] + 1, resultado[2]>>
GolB == resultado[2] < Limite /\ resultado' = <<resultado[1], resultado[2] + 1>>
AnulaA == resultado[1] > 0 /\ resultado' = <<resultado[1] - 1, resultado[2]>>
AnulaB == resultado[2] > 0 /\ resultado' = <<resultado[1], resultado[2] - 1>>

NasRegras ==
  /\ modo = "regras" /\ (GolA \/ GolB \/ AnulaA \/ AnulaB)
  /\ UNCHANGED <<modo, palpite, tabelas, contagem, varsLimitador>>

NosJogos ==
  /\ modo = "jogos" /\ Next
  /\ Range(nome') \subseteq {Nulo, Min(Nomes)} /\ contagem' = Nulo
  /\ UNCHANGED <<modo, daRegra, varsLimitador>>

NosNomes ==
  /\ modo = "nomes" /\ Next
  /\ Cardinality({j \in Jogos : situacao'[j] # "ativo"} \cup {l.jogo : l \in Range(palpites')}) <= 1
  /\ utilizados' = {}
  /\ UNCHANGED <<modo, daRegra, varsLimitador>>

\* The calls of one address are interchangeable: they come in their order.
NoLimitador ==
  /\ modo = "limitador" /\ NextLimitador
  /\ \A c \in Chamadas \ {0, 1} : chamada'[c] # "novo" => chamada'[c - 1] # "novo"
  /\ UNCHANGED <<modo, daRegra, tabelas, contagem>>

MCNext == NasRegras \/ NosJogos \/ NosNomes \/ NoLimitador

MCSpec == MCInit /\ [][MCNext]_MCvars

Pontos == CalcularPontos(palpite, resultado)

\* The code agrees with the table of the rules (regras.html:22-24).
ConformeRegra == Pontos = PontosDaRegra(palpite, resultado)

\* A correction by one goal that leaves the winner as it was changes no points
\* but those of an exact guess.
CorrecaoDeUmGol ==
  [][Vencedor(resultado[1], resultado[2]) = Vencedor(resultado'[1], resultado'[2])
       => Pontos = Pontos' \/ 10 \in {Pontos, Pontos'}]_MCvars

MCIpDe == [c \in Chamadas |-> IF c = 0 THEN ip2 ELSE ip1]
UmPalpite == {<<1, 0>>}
UmAZeroEDoisAZero == {<<1, 0>>, <<2, 0>>}
\* '' matches every name, the other text one of them.
TudoOuUmNome == {Nomes, {Min(Nomes)}}
Simetria == Permutations(Jogadores) \cup Permutations(Jogos)

=============================================================================
