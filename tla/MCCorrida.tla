------------------------------ MODULE MCCorrida ------------------------------
(* Races in Bolao, with every handler that has started driven to its end.   *)
(* A behaviour has either two submissions (or an invalid one) that meet one *)
(* result, or one submission and two results with different scores that     *)
(* compete for the row lock of the game.                                    *)
EXTENDS MCBolao

CONSTANTS a1, a2

VARIABLE modo

MCvars == <<vars, modo>>

MCInit == Init /\ modo \in {"envios", "resultados"}

Invalidos == {r \in Envios : ~CamposValidos(r) \/ EmailDe(r) = Nulo}
Enviados == {r \in Envios : envio[r] # "novo"}

DoisEnvios == modo = "envios" /\ ap'[a2].pc = "novo" /\ ap'[a1].placar # <<2, 0>>
DoisResultados ==
  /\ modo = "resultados" /\ Enviados' \subseteq {1}
  /\ ap'[a1].pc = "novo" => ap'[a2].pc = "novo"

\* Requests 2 and 3 have nothing in common: each of them meets request 1.
EnviosQueSeEncontram ==
  Cardinality(Enviados') > 1 => 1 \in Enviados' /\ Enviados' \cap Invalidos = {}

MCNext ==
  /\ Next
  /\ EnviosQueSeEncontram
  /\ DoisEnvios \/ DoisResultados
  /\ UNCHANGED modo

MCSpec == MCInit /\ [][MCNext]_MCvars /\ Justica

=============================================================================
