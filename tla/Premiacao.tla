----------------------------- MODULE Premiacao -----------------------------
(* What the prize pool promises its players, with nothing of how the server *)
(* keeps it: no requests, statements, transactions, locks or coupon rows.   *)
(* A result is one step: score, points and prizes of a game change together *)
(* or not at all, and a correction leaves nothing of the result before it.  *)
EXTENDS Pontuacao

CONSTANTS Jogadores, Jogos, Placares, Descontos, Nulo

VARIABLES
  placar,   \* game -> the published score, Nulo before it
  apostas,  \* the guesses: who, in which game, which score, points so far
  premios   \* the discounts of exact guesses: who, in which game, how much

vars == <<placar, apostas, premios>>

ApostasEm(j) == {b \in apostas : b.jogo = j}
PremiosEm(j) == {x \in premios : x.jogo = j}

Init ==
  /\ placar = [j \in Jogos |-> Nulo]
  /\ apostas = {}
  /\ premios = {}

\* A player guesses, once per game.
Aposta(e, j, p) ==
  /\ \A b \in ApostasEm(j) : b.jogador # e
  /\ apostas' = apostas \cup {[jogador |-> e, jogo |-> j, placar |-> p, pontos |-> 0]}
  /\ UNCHANGED <<placar, premios>>

ComPontos(b, p) == [b EXCEPT !.pontos = CalcularPontos(b.placar, p)]

\* A score is published, or corrected, with one discount for all its winners.
\* A guess that came too late to be among `vistas` is neither scored nor
\* rewarded, but one that has points is never overlooked.
Apura(j, p, d, vistas) ==
  /\ {b \in ApostasEm(j) : b.pontos # 0} \subseteq vistas
  /\ placar' = [placar EXCEPT ![j] = p]
  /\ apostas' = (apostas \ vistas) \cup {ComPontos(b, p) : b \in vistas}
  /\ premios' = (premios \ PremiosEm(j)) \cup
       {[jogador |-> b.jogador, jogo |-> j, valor |-> d] : b \in {v \in vistas : v.placar = p}}

\* A game is cancelled: its guesses and prizes go with it.
Cancela(j) ==
  /\ placar' = [placar EXCEPT ![j] = Nulo]
  /\ apostas' = apostas \ ApostasEm(j)
  /\ premios' = premios \ PremiosEm(j)

Next ==
  \E j \in Jogos :
    \/ \E e \in Jogadores, p \in Placares : Aposta(e, j, p)
    \/ \E p \in Placares, d \in Descontos, vistas \in SUBSET ApostasEm(j) :
         Apura(j, p, d, vistas)
    \/ Cancela(j)

Spec == Init /\ [][Next]_vars

=============================================================================
