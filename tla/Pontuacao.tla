----------------------------- MODULE Pontuacao -----------------------------
(* How a guess is scored against the final result: the pure function       *)
(* `calcular_pontos` of crates/server/src/routes/mod.rs and its helper.     *)
(* Scores are i16 that every caller has checked to lie in 0..20             *)
(* (palpites.rs:38, admin.rs:131), so no operation below can overflow.      *)
EXTENDS Integers

\* The range the handlers accept for the goals of one side.
Gols == 0..20

\* A final score, and a guess: goals of time_a, goals of time_b.
Placar == Gols \X Gols

\* Mutant: the case of a draw is missing.
SemEmpate(a, b) == IF a > b THEN 1 ELSE -1

\* 1 = time A wins, -1 = time B wins, 0 = a draw.
Vencedor(a, b) == IF a > b THEN 1 ELSE IF a < b THEN -1 ELSE 0

\* Mutant: 5 points for the winner and the right goals of that side only.
SoGolsDoVencedor(palpite, resultado) ==
  IF palpite = resultado THEN 10
  ELSE IF \/ resultado[1] > resultado[2] /\ palpite[1] = resultado[1]
          \/ resultado[1] < resultado[2] /\ palpite[2] = resultado[2]
       THEN 5 ELSE 0

\* 10 for the exact score, 5 for the winner of a match that had one, else 0.
CalcularPontos(palpite, resultado) ==
  LET vencedorReal == Vencedor(resultado[1], resultado[2]) IN
  IF palpite = resultado THEN 10
  ELSE IF /\ vencedorReal # 0
          /\ Vencedor(palpite[1], palpite[2]) = vencedorReal
       THEN 5
       ELSE 0

-----------------------------------------------------------------------------
\* The rules as published (regras.html:22-24), without `vencedor`: 10 for the
\* score, 5 for its winner; a draw has no winner.
PontosDaRegra(palpite, resultado) ==
  IF palpite[1] = resultado[1] /\ palpite[2] = resultado[2] THEN 10
  ELSE IF \/ palpite[1] > palpite[2] /\ resultado[1] > resultado[2]
          \/ palpite[1] < palpite[2] /\ resultado[1] < resultado[2]
       THEN 5 ELSE 0

=============================================================================
