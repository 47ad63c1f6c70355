------------------------------ MODULE MCBolao ------------------------------
(* Instances of Bolao for TLC.  People, phones, games and administrator     *)
(* requests are model values given by the .cfg files; submissions are the   *)
(* positions of the lists below.                                            *)
EXTENDS BolaoPropriedades, Sequences, TLC

CONSTANTS
  ana, bia, telA, telB,                          \* what is stored
  txtAna, txtANA, txtBia, semArroba, numA, numB, curto,  \* what is typed
  j1, j2

MCValidarEmail ==
  [x \in Enderecos |-> CASE x \in {txtAna, txtANA} -> ana
                         [] x = txtBia -> bia
                         [] OTHER -> Nulo]
MCSomenteDigitos ==
  [x \in Numeros |-> CASE x = numA -> telA [] x = numB -> telB [] OTHER -> Nulo]

Envia(nomeValido, telefone, email, jg, a, b) ==
  [nomeValido |-> nomeValido, telefone |-> telefone, email |-> email,
   jogo |-> jg, placar |-> <<a, b>>]

\* Two submissions that meet: the same player twice (second e-mail text, other
\* phone), another player with the same phone, each invalid field.
PedidosCorrida ==
  << Envia(TRUE, numA, txtAna, j1, 1, 0),
     Envia(TRUE, numB, txtANA, j1, 2, 0),
     Envia(TRUE, numA, txtBia, j1, 0, 1),
     Envia(TRUE, numA, semArroba, j1, 1, 0),
     Envia(TRUE, numA, txtBia, j1, 1, -1) >>

\* Two players, one per score that a result or a correction may give.
PedidosCorrecao ==
  << Envia(TRUE, numA, txtAna, j1, 1, 0),
     Envia(TRUE, numB, txtBia, j1, 2, 0) >>

\* One player who may guess in either game, and one bad request.
PedidosAdmin ==
  << Envia(TRUE, numA, txtAna, j1, 1, 0),
     Envia(TRUE, numA, txtAna, j2, 1, 0),
     Envia(TRUE, curto, txtAna, j2, 1, 0) >>

PlacarUnico == {<<1, 0>>, <<1, -1>>}
PlacarECorrecao == {<<1, 0>>, <<2, 0>>}
PlacaresCorrida == PlacarUnico \cup PlacarECorrecao
Padrao == [participacao |-> 10, acerto |-> 30]
\* Result requests are interchangeable.
Simetria == Permutations(Apuracoes)
Promocao == {[participacao |-> 15, acerto |-> 40]}

=============================================================================
