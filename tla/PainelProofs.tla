---------------------------- MODULE PainelProofs ----------------------------
(* Proofs about the card of the landing in the administrators' panel, for   *)
(* any games and any number of requests under way.                          *)
EXTENDS Painel, TLAPS

-----------------------------------------------------------------------------
\* Of the types, what the steps below need.
Pedidos ==
  /\ fetch = [i \in Fetches |-> fetch[i]]
  /\ \A i \in Fetches :
       /\ "tipo" \in DOMAIN fetch[i]
       /\ fetch[i].tipo = "salvar" => "jogo" \in DOMAIN fetch[i]

\* The card without its types.
TelaEmOrdem == SalvaOMostrado /\ PlacarDaTela /\ DesvioPassa /\ (erroNoCache => perdida)
Coerente == Pedidos /\ UmSalvar /\ TelaEmOrdem

\* What an answer leaves on the screen: the game that is asked for and its own
\* score, or no game at all.
LEMMA Desenho ==
  ASSUME NEW linhas, NEW j, Redesenha(linhas, j)
  PROVE  /\ j \in DOMAIN linhas => selecionado' = j /\ placarDe' = j
         /\ j \notin DOMAIN linhas => selecionado' = Nulo
  BY DEF Redesenha

\* A request that takes the place of another one leaves the others alone.
LEMMA Troca ==
  ASSUME Pedidos, NEW i \in Fetches, NEW pedido, Faz(i, pedido)
  PROVE  /\ fetch' = [k \in Fetches |-> fetch'[k]]
         /\ fetch'[i] = pedido
         /\ \A k \in Fetches \ {i} : fetch'[k] = fetch[k]
  BY DEF Pedidos, Faz

\* What is sent has its fields.
LEMMA Enviado ==
  ASSUME Pedidos, NEW i \in Fetches, NEW pedido, Faz(i, pedido),
         "tipo" \in DOMAIN pedido, pedido.tipo = "salvar" => "jogo" \in DOMAIN pedido
  PROVE  Pedidos'
  BY Troca DEF Pedidos

\* The server answers a request: of what kind it is does not change, and of a
\* save neither does the game.
LEMMA Atendimento ==
  ASSUME Pedidos, NEW i \in Fetches, Atende(i)
  PROVE  /\ Pedidos'
         /\ \A k \in Fetches : fetch'[k].tipo = fetch[k].tipo
         /\ \A k \in Fetches : fetch[k].tipo = "salvar" => fetch'[k].jogo = fetch[k].jogo
<1> DEFINE p == fetch[i]
<1>1. PICK r : /\ Faz(i, r) /\ "tipo" \in DOMAIN r /\ r.tipo = p.tipo
               /\ p.tipo = "salvar" => "jogo" \in DOMAIN r /\ r.jogo = p.jogo
  <2> DEFINE q == [p EXCEPT !.ida = FALSE]
  <2>1. /\ "tipo" \in DOMAIN q /\ q.tipo = p.tipo
        /\ p.tipo = "salvar" => "jogo" \in DOMAIN q /\ q.jogo = p.jogo
    BY DEF Pedidos
  <2>2. CASE Faz(i, q)
    BY <2>1, <2>2
  <2>3. CASE p.tipo # "salvar" /\ Faz(i, [tipo |-> p.tipo, ida |-> FALSE, linhas |-> tabela])
    BY <2>3
  <2>4. CASE p.tipo # "salvar" /\ Faz(i, [tipo |-> p.tipo, ida |-> FALSE, jogo |-> vinculado])
    BY <2>4
  <2> QED
    BY <2>2, <2>3, <2>4 DEF Atende
<1> QED
  BY <1>1, Troca DEF Pedidos

\* The save under way is the one there was.
SemNovoSalvar ==
  \A k \in Fetches : fetch'[k].tipo = "salvar" =>
    fetch[k].tipo = "salvar" /\ fetch'[k].jogo = fetch[k].jogo

\* A reload of the games goes on, or it has failed.
AindaRecarrega ==
  \A k \in Fetches : fetch[k].tipo \in {"jogos", "jogosDoResultado"} =>
    fetch'[k].tipo = fetch[k].tipo \/ perdida'

LEMMA UmSalvarFica ==
  ASSUME Coerente, SemNovoSalvar, salvando' = salvando
  PROVE  UmSalvar'
  BY DEF Coerente, UmSalvar, SemNovoSalvar

\* A step that leaves the screen alone leaves what it shows in order.
LEMMA TelaIntacta ==
  ASSUME Coerente, SemNovoSalvar, AindaRecarrega, UNCHANGED <<jogosCache, erroNoCache, tela>>,
         perdida => perdida'
  PROVE  TelaEmOrdem'
<1>1. SalvaOMostrado' /\ PlacarDaTela' /\ (erroNoCache' => perdida')
  BY DEF Coerente, TelaEmOrdem, SemNovoSalvar, tela, SalvaOMostrado, PlacarDaTela
<1>2. DesvioPassa'
  BY DEF Coerente, TelaEmOrdem, AindaRecarrega, tela, DesvioPassa, EmCurso
<1> QED
  BY <1>1, <1>2 DEF TelaEmOrdem

\* A step that draws the card again for the game the buttons act upon puts what
\* it shows in order, whatever else it does.
LEMMA TelaRedesenhada ==
  ASSUME Redesenha(jogosCache', landingJogoId'), erroNoCache' => perdida'
  PROVE  TelaEmOrdem'
<1>1. /\ landingJogoId' \in DOMAIN jogosCache'
           => selecionado' = landingJogoId' /\ placarDe' = landingJogoId'
      /\ landingJogoId' \notin DOMAIN jogosCache' => selecionado' = Nulo
  BY Desenho
<1> QED
  BY <1>1 DEF TelaEmOrdem, SalvaOMostrado, PlacarDaTela, DesvioPassa

\* Nothing is said of the card while the script holds a refusal.
LEMMA TelaComErro ==
  ASSUME erroNoCache', perdida'
  PROVE  TelaEmOrdem'
  BY DEF TelaEmOrdem, SalvaOMostrado, PlacarDaTela, DesvioPassa

\* The card drawn from what the script holds.
LEMMA TelaMostrada ==
  ASSUME Coerente, NEW m, MostraJogo(landingJogoId', m), UNCHANGED jogosLidos
  PROVE  TelaEmOrdem'
<1>1. CASE erroNoCache
  BY <1>1, TelaComErro DEF Coerente, TelaEmOrdem, jogosLidos
<1>2. CASE ~erroNoCache
  BY <1>2, TelaRedesenhada DEF MostraJogo, jogosLidos
<1> QED
  BY <1>1, <1>2

-----------------------------------------------------------------------------
(* The steps.                                                               *)

LEMMA CarregaTudoMantem ==
  ASSUME Coerente, NEW i \in Fetches, fetch[i].tipo \in {"livre", "excluir"}, CarregaTudo(i),
         UNCHANGED <<jogosLidos, tela, salvando>>
  PROVE  Coerente'
<1>1. PICK k \in Fetches \ {i} : /\ fetch[k] = Livre
                                 /\ fetch' = [fetch EXCEPT ![i] = GET("jogos"), ![k] = GET("landing")]
  BY DEF CarregaTudo
<1>2. /\ fetch' = [x \in Fetches |-> fetch'[x]]
      /\ fetch'[i] = GET("jogos") /\ fetch'[k] = GET("landing")
      /\ \A x \in Fetches \ {i, k} : fetch'[x] = fetch[x]
  BY <1>1 DEF Coerente, Pedidos
<1>3. SemNovoSalvar /\ AindaRecarrega /\ Pedidos'
  BY <1>1, <1>2 DEF GET, Livre, SemNovoSalvar, AindaRecarrega, Coerente, Pedidos
<1> QED
  BY <1>3, UmSalvarFica, TelaIntacta DEF Coerente, jogosLidos

LEMMA CliquesMantem ==
  ASSUME Coerente, NEW i \in Fetches,
         Divulga(i) \/ (\E j \in Jogos : Exclui(i, j)) \/ Recarrega(i)
  PROVE  Coerente'
<1>1. UNCHANGED <<jogosLidos, tela, salvando>> /\ fetch[i] = Livre
  BY DEF Divulga, Exclui, Recarrega, botoes
<1>2. CASE CarregaTudo(i)
  BY <1>1, <1>2, CarregaTudoMantem DEF Livre
<1>3. CASE ~CarregaTudo(i)
  <2>1. PICK r : Faz(i, r) /\ "tipo" \in DOMAIN r /\ r.tipo # "salvar"
    <3>1. CASE Divulga(i)
      BY <3>1 DEF Divulga, Resultado
    <3>2. CASE \E j \in Jogos : Exclui(i, j)
      BY <3>2 DEF Exclui, PUT
    <3>3. CASE Recarrega(i)
      <4>1. Faz(i, GET("jogos"))
        BY <1>3, <3>3 DEF Recarrega
      <4> QED
        BY <4>1 DEF GET
    <3> QED
      BY <3>1, <3>2, <3>3
  <2>2. SemNovoSalvar /\ AindaRecarrega /\ Pedidos'
    BY <1>1, <2>1, Troca, Enviado DEF SemNovoSalvar, AindaRecarrega, Livre, Coerente
  <2> QED
    BY <1>1, <2>2, UmSalvarFica, TelaIntacta DEF Coerente, jogosLidos
<1> QED
  BY <1>2, <1>3

LEMMA SalvaMantem ==
  ASSUME Coerente, NEW i \in Fetches, Salva(i)
  PROVE  Coerente'
<1> DEFINE r == PUT("salvar", landingJogoId)
<1>1. r.tipo = "salvar" /\ r.jogo = landingJogoId /\ DOMAIN r = {"tipo", "ida", "jogo"}
  BY DEF PUT
<1>2. /\ Faz(i, r) /\ fetch[i] = Livre /\ ~salvando /\ salvando'
      /\ UNCHANGED <<jogosLidos, tela>>
  BY DEF Salva
<1> HIDE DEF r
<1>3. /\ fetch'[i] = r /\ \A k \in Fetches \ {i} : fetch'[k] = fetch[k]
      /\ Pedidos'
  BY <1>1, <1>2, Troca, Enviado DEF Coerente
<1>4. \A k \in Fetches : fetch[k].tipo # "salvar"
  BY <1>2 DEF Coerente, UmSalvar
<1>5. UmSalvar' /\ SalvaOMostrado'
  BY <1>1, <1>2, <1>3, <1>4 DEF UmSalvar, SalvaOMostrado, tela, jogosLidos
<1>6. PlacarDaTela' /\ (erroNoCache' => perdida')
  BY <1>2 DEF Coerente, TelaEmOrdem, PlacarDaTela, tela, jogosLidos
<1>7. DesvioPassa'
  BY <1>2, <1>3 DEF Coerente, TelaEmOrdem, DesvioPassa, tela, jogosLidos, EmCurso, Livre
<1> QED
  BY <1>3, <1>5, <1>6, <1>7 DEF Coerente, TelaEmOrdem

LEMMA SalvoMantem ==
  ASSUME Coerente, NEW i \in Fetches, Salvo(i)
  PROVE  Coerente'
<1>1. /\ Faz(i, GET("jogos")) /\ fetch[i].tipo = "salvar"
      /\ landingJogoId' = IF fetch[i].jogo # Nulo THEN fetch[i].jogo ELSE landingJogoId
      /\ UNCHANGED <<jogosLidos, selecionado, placarDe>>
  BY DEF Salvo, Vem
<1>2. GET("jogos").tipo = "jogos" /\ "tipo" \in DOMAIN GET("jogos")
  BY DEF GET
<1>3. /\ fetch'[i].tipo = "jogos" /\ \A k \in Fetches \ {i} : fetch'[k] = fetch[k]
      /\ Pedidos'
  BY <1>1, <1>2, Troca, Enviado DEF Coerente
<1>4. \A k \in Fetches : fetch'[k].tipo # "salvar"
  BY <1>1, <1>3 DEF Coerente, UmSalvar
<1>5. PlacarDaTela' /\ (erroNoCache' => perdida')
  BY <1>1 DEF Coerente, TelaEmOrdem, PlacarDaTela, SalvaOMostrado, jogosLidos
<1>6. DesvioPassa'
  BY <1>3 DEF DesvioPassa, EmCurso
<1> QED
  BY <1>3, <1>4, <1>5, <1>6 DEF Coerente, TelaEmOrdem, UmSalvar, SalvaOMostrado

LEMMA CargasMantem ==
  ASSUME Coerente, NEW i \in Fetches,
         \/ ChegamJogos(i) \/ ChegamJogosDoResultado(i) \/ ErroNosJogos(i)
         \/ ChegaLanding(i) \/ ErroNaLanding(i)
  PROVE  Coerente'
<1>1. PICK r : Faz(i, r) /\ "tipo" \in DOMAIN r /\ r.tipo # "salvar"
  BY DEF ChegamJogos, ChegaLanding, ChegamJogosDoResultado, ErroNosJogos, ErroNaLanding, GET, Livre
<1>2. SemNovoSalvar /\ Pedidos' /\ salvando' = salvando
  BY <1>1, Troca, Enviado DEF SemNovoSalvar, Coerente, botoes,
     ChegamJogos, ChegaLanding, ChegamJogosDoResultado, ErroNosJogos, ErroNaLanding
<1>3. TelaEmOrdem'
  <2>1. CASE ChegamJogos(i) \/ ChegamJogosDoResultado(i)
    BY <2>1, TelaRedesenhada DEF ChegamJogos, ChegamJogosDoResultado, ChegamLinhas
  <2>2. CASE ErroNosJogos(i)
    BY <2>2, TelaComErro DEF ErroNosJogos
  <2>3. CASE ChegaLanding(i) \/ ErroNaLanding(i)
    BY <2>3, TelaMostrada DEF ChegaLanding, ErroNaLanding
  <2> QED
    BY <2>1, <2>2, <2>3
<1> QED
  BY <1>2, <1>3, UmSalvarFica DEF Coerente

LEMMA OutrasRespostasMantem ==
  ASSUME Coerente, NEW i \in Fetches, Divulgado(i) \/ Excluido(i) \/ SessaoExpira(i)
  PROVE  Coerente'
<1>1. CASE Excluido(i)
  BY <1>1, CarregaTudoMantem DEF Excluido, Vem, botoes
<1>2. CASE Divulgado(i) \/ SessaoExpira(i)
  <2>1. PICK r : /\ Faz(i, r) /\ "tipo" \in DOMAIN r /\ r.tipo # "salvar"
                 /\ fetch[i].tipo = "resultado" \/ perdida'
    BY <1>2 DEF Divulgado, SessaoExpira, Vem, GET
  <2>2. /\ UNCHANGED <<jogosCache, erroNoCache, tela, salvando>>
        /\ perdida => perdida'
    BY <1>2 DEF Divulgado, SessaoExpira, jogosLidos, botoes
  <2>3. SemNovoSalvar /\ AindaRecarrega /\ Pedidos'
    BY <2>1, Troca, Enviado DEF SemNovoSalvar, AindaRecarrega, Coerente
  <2> QED
    BY <2>2, <2>3, UmSalvarFica, TelaIntacta DEF Coerente
<1> QED
  BY <1>1, <1>2

LEMMA MetricasMantem ==
  ASSUME Coerente, NEW i \in Fetches, ChegamMetricas(i)
  PROVE  Coerente'
<1>1. /\ Faz(i, Livre) /\ fetch[i].tipo = "metricas"
      /\ UNCHANGED <<jogosCache, erroNoCache, perdida, landingJogoId, selecionado, salvando>>
      /\ placarDe' \in {placarDe, landingJogoId}
  BY DEF ChegamMetricas, Vem, jogosLidos
<1>2. Livre.tipo = "livre" /\ "tipo" \in DOMAIN Livre
  BY DEF Livre
<1>3. SemNovoSalvar /\ AindaRecarrega /\ Pedidos'
  BY <1>1, <1>2, Troca, Enviado DEF SemNovoSalvar, AindaRecarrega, Coerente
<1>4. SalvaOMostrado' /\ PlacarDaTela' /\ (erroNoCache' => perdida')
  BY <1>1, <1>3 DEF Coerente, TelaEmOrdem, SemNovoSalvar, SalvaOMostrado, PlacarDaTela
<1>5. DesvioPassa'
  BY <1>1, <1>3 DEF Coerente, TelaEmOrdem, AindaRecarrega, DesvioPassa, EmCurso
<1> QED
  BY <1>1, <1>3, <1>4, <1>5, UmSalvarFica DEF Coerente, TelaEmOrdem

LEMMA FalhaMantem ==
  ASSUME Coerente, NEW i \in Fetches, Falha(i)
  PROVE  Coerente'
<1>1. /\ Faz(i, Livre)
      /\ salvando' = (salvando /\ fetch[i].tipo # "salvar")
      /\ perdida' = (perdida \/ fetch[i].tipo \in {"jogos", "jogosDoResultado"})
      /\ UNCHANGED <<jogosCache, erroNoCache, tela>>
  BY DEF Falha
<1>2. Livre.tipo = "livre" /\ "tipo" \in DOMAIN Livre
  BY DEF Livre
<1>3. /\ fetch'[i] = Livre /\ \A k \in Fetches \ {i} : fetch'[k] = fetch[k]
      /\ Pedidos'
  BY <1>1, <1>2, Troca, Enviado DEF Coerente
<1>4. SemNovoSalvar /\ AindaRecarrega
  BY <1>1, <1>2, <1>3 DEF SemNovoSalvar, AindaRecarrega
<1>5. UmSalvar'
  BY <1>1, <1>2, <1>3 DEF Coerente, UmSalvar
<1> QED
  BY <1>1, <1>3, <1>4, <1>5, TelaIntacta DEF Coerente

LEMMA TelaMantem ==
  ASSUME Coerente, (\E j \in Jogos : Seleciona(j)) \/ (\E p \in Placares : Digita(p))
  PROVE  Coerente'
<1>1. UNCHANGED <<jogosLidos, fetch, botoes>>
  BY DEF Seleciona, Digita
<1>2. Pedidos' /\ UmSalvar'
  BY <1>1 DEF Coerente, Pedidos, UmSalvar, botoes
<1>3. CASE \E j \in Jogos : Seleciona(j)
  <2>1. \E j \in Jogos : MostraJogo(landingJogoId', j)
    BY <1>3 DEF Seleciona
  <2> QED
    BY <1>1, <1>2, <2>1, TelaMostrada DEF Coerente
<1>4. CASE \E p \in Placares : Digita(p)
  <2>1. placarDe' = selecionado /\ UNCHANGED <<landingJogoId, selecionado>>
    BY <1>4 DEF Digita
  <2>2. SalvaOMostrado' /\ PlacarDaTela' /\ (erroNoCache' => perdida')
    BY <1>1, <2>1 DEF Coerente, TelaEmOrdem, SalvaOMostrado, PlacarDaTela, jogosLidos
  <2>3. DesvioPassa'
    BY <1>1, <2>1 DEF Coerente, TelaEmOrdem, DesvioPassa, EmCurso, jogosLidos
  <2> QED
    BY <1>2, <2>2, <2>3 DEF Coerente, TelaEmOrdem
<1> QED
  BY <1>3, <1>4

-----------------------------------------------------------------------------
(* The types.                                                               *)

\* The fields of a request of each kind.
LEMMA Forma ==
  ASSUME NEW r \in Pedido
  PROVE  /\ "tipo" \in DOMAIN r
         /\ r.tipo \in {"salvar", "landing"} /\ (r.tipo = "landing" => ~r.ida) =>
              "jogo" \in DOMAIN r /\ r.jogo \in Jogos \cup {Nulo}
         /\ r.tipo \in {"resultado", "excluir"} => r.jogo \in Jogos
         /\ r.tipo = "resultado" => r.placar \in Placares
         /\ r.tipo \in {"jogos", "jogosDoResultado"} /\ ~r.ida => r.linhas \in Tabelas
         /\ r.tipo \in {"salvar", "excluir", "resultado"} =>
              [r EXCEPT !.ida = FALSE] \in Pedido
         /\ r.tipo = "metricas" => [r EXCEPT !.ida = FALSE] \in Pedido
         /\ r.tipo \in {"livre", "jogos", "jogosDoResultado", "landing", "metricas",
                        "salvar", "excluir", "resultado"}
<1> DEFINE doJogo == Jogos \cup {Nulo}
           q == [r EXCEPT !.ida = FALSE]
<1>0. CASE r = Livre
  BY <1>0 DEF Livre
<1>1. CASE \/ r \in [tipo : {"landing"}, ida : {FALSE}, jogo : doJogo]
           \/ r \in [tipo : {"jogos", "jogosDoResultado"}, ida : {FALSE}, linhas : Tabelas]
  BY <1>1
<1>2. CASE r \in [tipo : {"jogos", "jogosDoResultado", "landing", "metricas"}, ida : {TRUE}]
           \/ r \in [tipo : {"metricas"}, ida : {FALSE}]
  <2>1. r.tipo = "metricas" => q \in [tipo : {"metricas"}, ida : {FALSE}]
    BY <1>2
  <2>2. r.tipo = "metricas" => q \in Pedido
    BY <2>1 DEF Pedido
  <2> QED
    BY <1>2, <2>2
<1>3. CASE r \in [tipo : {"salvar"}, ida : BOOLEAN, jogo : doJogo]
  <2>1. q \in [tipo : {"salvar"}, ida : BOOLEAN, jogo : doJogo]
    BY <1>3
  <2>2. q \in Pedido
    BY <2>1 DEF Pedido
  <2> QED
    BY <1>3, <2>2
<1>4. CASE r \in [tipo : {"excluir"}, ida : BOOLEAN, jogo : Jogos]
  <2>1. q \in [tipo : {"excluir"}, ida : BOOLEAN, jogo : Jogos]
    BY <1>4
  <2>2. q \in Pedido
    BY <2>1 DEF Pedido
  <2> QED
    BY <1>4, <2>2
<1>5. CASE r \in [tipo : {"resultado"}, ida : BOOLEAN, jogo : Jogos, placar : Placares,
                  naTela : doJogo, placarDe : doJogo]
  <2>1. q \in [tipo : {"resultado"}, ida : BOOLEAN, jogo : Jogos, placar : Placares,
               naTela : doJogo, placarDe : doJogo]
    BY <1>5
  <2>2. q \in Pedido
    BY <2>1 DEF Pedido
  <2> QED
    BY <1>5, <2>2
<1> QED
  BY <1>0, <1>1, <1>2, <1>3, <1>4, <1>5 DEF Pedido

\* What may be sent.
LEMMA Envios ==
  /\ Livre \in Pedido
  /\ \A t \in {"jogos", "jogosDoResultado", "landing", "metricas"} : GET(t) \in Pedido
  /\ \A j \in Jogos \cup {Nulo} : PUT("salvar", j) \in Pedido
  /\ \A j \in Jogos : PUT("excluir", j) \in Pedido
  /\ TypeOKPainel /\ landingJogoId # Nulo => Resultado \in Pedido
<1>1. TypeOKPainel /\ landingJogoId # Nulo => Resultado \in Pedido
  BY ZeroAssumption DEF Pedido, Resultado, TypeOKPainel
<1> QED
  BY <1>1 DEF Pedido, Livre, GET, PUT

\* Rows that were loaded have scores.
LEMMA Linhas ==
  ASSUME NEW l \in Tabelas
  PROVE  /\ DOMAIN l \subseteq Jogos
         /\ \A j \in DOMAIN l : l[j] \in Placares \cup {Nulo}
  BY DEF Tabelas

\* The screen drawn from rows, or from what the script holds, has its types.
DesenhoOK ==
  /\ {selecionado, placarDe} \subseteq Jogos \cup {Nulo}
  /\ placar \in Placares \cup {Nulo}

LEMMA DesenhoTipado ==
  ASSUME TypeOKPainel, NEW l \in Tabelas, NEW j, Redesenha(l, j)
  PROVE  DesenhoOK'
  BY Linhas DEF Redesenha, TypeOKPainel, DesenhoOK

LEMMA MostraTipado ==
  ASSUME TypeOKPainel, NEW j, NEW m \in Jogos \cup {Nulo}, MostraJogo(j, m)
  PROVE  DesenhoOK'
<1>1. jogosCache \in Tabelas
  BY DEF TypeOKPainel
<1>2. CASE erroNoCache
  BY <1>2 DEF MostraJogo, TypeOKPainel, DesenhoOK
<1>3. CASE ~erroNoCache
  BY <1>1, <1>3, DesenhoTipado DEF MostraJogo
<1> QED
  BY <1>2, <1>3

\* Everything of TypeOKPainel but the requests and the buttons.
TelaTipada ==
  /\ tabela \in Tabelas /\ jogosCache \in Tabelas
  /\ {vinculado, landingJogoId} \subseteq Jogos \cup {Nulo}
  /\ {erroNoCache, perdida} \subseteq BOOLEAN
  /\ DesenhoOK

BotoesSeguem ==
  /\ {salvando, divulgando} \subseteq BOOLEAN
  /\ salvando <=> EmCurso("salvar")
  /\ divulgando <=> \E t \in DoResultado : EmCurso(t)
  /\ UmResultado

\* A request takes the place of another: the buttons follow when a request of
\* theirs begins only while they are enabled, and ends only as they are enabled
\* again.
LEMMA TrocaSegue ==
  ASSUME IInvPainel, NEW i \in Fetches, NEW r \in Pedido, Faz(i, r),
         r.tipo = "salvar" => fetch[i].tipo = "salvar" \/ ~salvando,
         salvando' = (r.tipo = "salvar" \/ (salvando /\ fetch[i].tipo # "salvar")),
         r.tipo \in DoResultado => fetch[i].tipo \in DoResultado \/ ~divulgando,
         divulgando' = (r.tipo \in DoResultado \/ (divulgando /\ fetch[i].tipo \notin DoResultado))
  PROVE  fetch' \in [Fetches -> Pedido] /\ BotoesSeguem'
<1>1. fetch \in [Fetches -> Pedido]
  BY DEF IInvPainel, TypeOKPainel
<1>2. fetch' \in [Fetches -> Pedido] /\ fetch'[i] = r /\ \A k \in Fetches \ {i} : fetch'[k] = fetch[k]
  BY <1>1 DEF Faz
<1>3. salvando' <=> EmCurso("salvar")'
  BY <1>2 DEF IInvPainel, TypeOKPainel, UmSalvar, EmCurso
<1>4. divulgando <=> \E k \in Fetches : fetch[k].tipo \in DoResultado
  BY DEF IInvPainel, TypeOKPainel, EmCurso
<1>5. divulgando' <=> \E k \in Fetches : fetch'[k].tipo \in DoResultado
  <2>1. \A k \in Fetches : fetch[i].tipo \in DoResultado /\ fetch[k].tipo \in DoResultado => k = i
    BY DEF IInvPainel, UmResultado
  <2>2. CASE r.tipo \in DoResultado
    BY <1>2, <2>2
  <2>3. CASE r.tipo \notin DoResultado
    <3>1. (\E k \in Fetches : fetch'[k].tipo \in DoResultado)
            <=> \E k \in Fetches : fetch[k].tipo \in DoResultado /\ k # i
      BY <1>2, <2>3
    <3>2. divulgando' <=> (divulgando /\ fetch[i].tipo \notin DoResultado)
      BY <2>3
    <3> QED
      BY <1>4, <2>1, <3>1, <3>2
  <2> QED
    BY <2>2, <2>3
<1>6. UmResultado'
  BY <1>2, <1>4 DEF IInvPainel, UmResultado
<1> QED
  BY <1>2, <1>3, <1>5, <1>6 DEF BotoesSeguem, EmCurso

\* Loading everything again touches no request that a button waits for.
LEMMA CargaSegue ==
  ASSUME IInvPainel, NEW i \in Fetches, fetch[i].tipo \in {"livre", "excluir"}, CarregaTudo(i),
         UNCHANGED <<salvando, divulgando>>
  PROVE  fetch' \in [Fetches -> Pedido] /\ BotoesSeguem'
<1>1. PICK k \in Fetches \ {i} : /\ fetch[k] = Livre
                                 /\ fetch' = [fetch EXCEPT ![i] = GET("jogos"), ![k] = GET("landing")]
  BY DEF CarregaTudo
<1>2. fetch \in [Fetches -> Pedido]
  BY DEF IInvPainel, TypeOKPainel
<1>3. fetch' \in [Fetches -> Pedido]
  BY <1>1, <1>2, Envios
<1>4. GET("jogos").tipo = "jogos" /\ GET("landing").tipo = "landing" /\ Livre.tipo = "livre"
  BY DEF GET, Livre
<1>5. /\ fetch[k].tipo = "livre" /\ fetch'[i].tipo = "jogos" /\ fetch'[k].tipo = "landing"
      /\ \A x \in Fetches \ {i, k} : fetch'[x] = fetch[x]
  BY <1>1, <1>2, <1>4
<1>6. \A x \in Fetches, t \in DoResultado \cup {"salvar"} : fetch'[x].tipo = t <=> fetch[x].tipo = t
  BY <1>5 DEF DoResultado
<1>7. BotoesSeguem'
  BY <1>6 DEF BotoesSeguem, IInvPainel, TypeOKPainel, EmCurso, UmResultado
<1> QED
  BY <1>3, <1>7

LEMMA PassoTipos == IInvPainel /\ [NextPainel]_varsPainel => TypeOKPainel' /\ UmResultado'
<1> SUFFICES ASSUME IInvPainel, [NextPainel]_varsPainel
             PROVE  TelaTipada' /\ fetch' \in [Fetches -> Pedido] /\ BotoesSeguem'
  BY DEF TypeOKPainel, TelaTipada, DesenhoOK, BotoesSeguem
<1>1. TypeOKPainel /\ TelaTipada /\ DesenhoOK /\ \A i \in Fetches : fetch[i] \in Pedido
  BY DEF IInvPainel, TypeOKPainel, TelaTipada, DesenhoOK
<1>2. ASSUME NEW i \in Fetches
      PROVE  /\ fetch[i].tipo = "salvar" => salvando
             /\ fetch[i].tipo \in DoResultado => divulgando
             /\ salvando \in BOOLEAN /\ divulgando \in BOOLEAN
  BY DEF IInvPainel, TypeOKPainel, EmCurso
<1>3. \A t \in {"jogos", "jogosDoResultado", "landing", "metricas"} : GET(t).tipo = t
  BY DEF GET
<1>4. CASE (\E j \in Jogos : Seleciona(j)) \/ (\E p \in Placares : Digita(p))
  <2>1. UNCHANGED <<fetch, salvando, divulgando>>
    BY <1>4 DEF Seleciona, Digita, botoes
  <2>2. BotoesSeguem' /\ fetch' \in [Fetches -> Pedido]
    BY <2>1 DEF IInvPainel, TypeOKPainel, BotoesSeguem, EmCurso, UmResultado
  <2>3. TelaTipada'
    <3>1. CASE \E j \in Jogos : Seleciona(j)
      BY <1>1, <3>1, MostraTipado DEF Seleciona, TelaTipada, banco, jogosLidos
    <3>2. CASE \E p \in Placares : Digita(p)
      BY <1>1, <3>2 DEF Digita, TelaTipada, DesenhoOK, banco, jogosLidos
    <3> QED
      BY <1>4, <3>1, <3>2
  <2> QED
    BY <2>2, <2>3
<1>5. ASSUME NEW i \in Fetches,
             Salva(i) \/ Divulga(i) \/ (\E j \in Jogos : Exclui(i, j)) \/ Recarrega(i)
      PROVE  TelaTipada' /\ fetch' \in [Fetches -> Pedido] /\ BotoesSeguem'
  <2>1. TelaTipada'
    BY <1>1, <1>5 DEF Salva, Divulga, Exclui, Recarrega, TelaTipada, DesenhoOK, banco, tela,
       jogosLidos
  <2>2. fetch[i].tipo = "livre"
    BY <1>5 DEF Salva, Divulga, Exclui, Recarrega, Livre
  <2>3. CASE Salva(i)
    <3>1. PUT("salvar", landingJogoId) \in Pedido /\ PUT("salvar", landingJogoId).tipo = "salvar"
      BY <1>1, Envios DEF TelaTipada, PUT
    <3> QED
      BY <1>2, <2>1, <2>2, <2>3, <3>1, TrocaSegue DEF Salva, DoResultado
  <2>4. CASE Divulga(i)
    <3>1. Resultado \in Pedido /\ Resultado.tipo = "resultado"
      BY <1>1, <2>4, Envios DEF Divulga, Resultado
    <3> QED
      BY <1>2, <2>1, <2>2, <2>4, <3>1, TrocaSegue DEF Divulga, DoResultado
  <2>5. ASSUME NEW j \in Jogos, Exclui(i, j) PROVE fetch' \in [Fetches -> Pedido] /\ BotoesSeguem'
    <3>1. PUT("excluir", j) \in Pedido /\ PUT("excluir", j).tipo = "excluir"
      BY Envios DEF PUT
    <3> QED
      BY <1>2, <2>2, <2>5, <3>1, TrocaSegue DEF Exclui, DoResultado, botoes
  <2>6. CASE Recarrega(i)
    <3>1. CASE Faz(i, GET("jogos"))
      BY <1>2, <1>3, <2>1, <2>2, <2>6, <3>1, Envios, TrocaSegue DEF Recarrega, DoResultado, botoes
    <3>2. CASE CarregaTudo(i)
      <4>1. UNCHANGED <<salvando, divulgando>>
        BY <2>6 DEF Recarrega, botoes
      <4> QED
        BY <2>1, <2>2, <3>2, <4>1, CargaSegue
    <3> QED
      BY <2>6, <3>1, <3>2 DEF Recarrega
  <2> QED
    BY <1>5, <2>1, <2>3, <2>4, <2>5, <2>6
<1>6. ASSUME NEW i \in Fetches, Atende(i)
      PROVE  TelaTipada' /\ fetch' \in [Fetches -> Pedido] /\ BotoesSeguem'
  <2> DEFINE p == fetch[i]
  <2>0. p \in Pedido /\ UNCHANGED <<jogosLidos, tela, salvando, divulgando>>
    BY <1>1, <1>6 DEF Atende, botoes
  <2>1. TelaTipada'
    <3>1. tabela' \in Tabelas
      <4>1. CASE tabela' = tabela
        BY <1>1, <4>1 DEF TelaTipada
      <4>2. CASE p.jogo \in DOMAIN tabela /\ p.tipo = "resultado" /\ tabela' = [tabela EXCEPT ![p.jogo] = p.placar]
        BY <1>1, <2>0, <4>2, Forma DEF TelaTipada, Tabelas
      <4>3. CASE tabela' = [j \in DOMAIN tabela \ {p.jogo} |-> tabela[j]]
        <5>1. DOMAIN tabela \ {p.jogo} \in SUBSET Jogos
          BY <1>1, Linhas DEF TelaTipada
        <5>2. \A j \in DOMAIN tabela : tabela[j] \in Placares \cup {Nulo}
          BY <1>1, Linhas DEF TelaTipada
        <5>3. tabela' \in [DOMAIN tabela \ {p.jogo} -> Placares \cup {Nulo}]
          BY <4>3, <5>2
        <5> QED
          BY <5>1, <5>3 DEF Tabelas
      <4> QED
        BY <1>6, <4>1, <4>2, <4>3 DEF Atende, banco
    <3>2. vinculado' \in Jogos \cup {Nulo}
      <4>1. vinculado' = vinculado \/ (p.tipo = "salvar" /\ vinculado' = p.jogo)
        BY <1>6 DEF Atende, banco
      <4> QED
        BY <1>1, <2>0, <4>1, Forma DEF TelaTipada
    <3> QED
      BY <1>1, <2>0, <3>1, <3>2 DEF TelaTipada, DesenhoOK, tela, jogosLidos
  <2>2. PICK r \in Pedido : Faz(i, r) /\ r.tipo = p.tipo
    <3> DEFINE q == [p EXCEPT !.ida = FALSE]
               l == [tipo |-> p.tipo, ida |-> FALSE, linhas |-> tabela]
               v == [tipo |-> p.tipo, ida |-> FALSE, jogo |-> vinculado]
    <3>1. CASE p.tipo \in {"jogos", "jogosDoResultado"} /\ Faz(i, l)
      <4>1. l \in Pedido
        BY <1>1, <3>1 DEF Pedido, TelaTipada
      <4> QED
        BY <3>1, <4>1
    <3>2. CASE p.tipo = "landing" /\ Faz(i, v)
      <4>1. v \in Pedido
        BY <1>1, <3>2 DEF Pedido, TelaTipada
      <4> QED
        BY <3>2, <4>1
    <3>3. CASE p.tipo \in {"metricas", "salvar", "resultado", "excluir"} /\ Faz(i, q)
      <4>1. q \in Pedido
        BY <2>0, <3>3, Forma
      <4>2. q.tipo = p.tipo
        BY <2>0, Forma
      <4> QED
        BY <3>3, <4>1, <4>2
    <3> QED
      BY <1>6, <3>1, <3>2, <3>3 DEF Atende
  <2>3. fetch' \in [Fetches -> Pedido] /\ BotoesSeguem'
    BY <1>2, <2>0, <2>2, TrocaSegue
  <2> QED
    BY <2>1, <2>3
<1>7. ASSUME NEW i \in Fetches, ChegamJogos(i) \/ ChegamJogosDoResultado(i)
      PROVE  TelaTipada' /\ fetch' \in [Fetches -> Pedido] /\ BotoesSeguem'
  <2>1. fetch[i].linhas \in Tabelas
    BY <1>1, <1>7, Forma DEF ChegamJogos, ChegamJogosDoResultado, Vem
  <2>2. TelaTipada'
    BY <1>1, <1>7, <2>1, DesenhoTipado DEF ChegamJogos, ChegamJogosDoResultado, ChegamLinhas,
       TelaTipada, banco
  <2>3. CASE ChegamJogos(i)
    BY <1>2, <2>2, <2>3, Envios, TrocaSegue DEF ChegamJogos, Vem, DoResultado, botoes, Livre
  <2>4. CASE ChegamJogosDoResultado(i)
    BY <1>2, <1>3, <2>2, <2>4, Envios, TrocaSegue DEF ChegamJogosDoResultado, Vem, DoResultado, botoes
  <2> QED
    BY <1>7, <2>3, <2>4
<1>8. ASSUME NEW i \in Fetches, ChegaLanding(i) \/ ErroNaLanding(i)
      PROVE  TelaTipada' /\ fetch' \in [Fetches -> Pedido] /\ BotoesSeguem'
  <2>1. landingJogoId' \in Jogos \cup {Nulo}
    BY <1>1, <1>8, Forma DEF ChegaLanding, ErroNaLanding, Vem
  <2>2. DesenhoOK'
    BY <1>1, <1>8, MostraTipado DEF ChegaLanding, ErroNaLanding, DesenhoOK
  <2>3. TelaTipada'
    BY <1>1, <1>8, <2>1, <2>2 DEF ChegaLanding, ErroNaLanding, TelaTipada, banco, jogosLidos
  <2>4. fetch[i].tipo = "landing" /\ Faz(i, Livre) /\ UNCHANGED botoes
    BY <1>8 DEF ChegaLanding, ErroNaLanding, Vem
  <2> QED
    BY <1>2, <2>3, <2>4, Envios, TrocaSegue DEF DoResultado, botoes, Livre
<1>9. ASSUME NEW i \in Fetches, Salvo(i)
      PROVE  TelaTipada' /\ fetch' \in [Fetches -> Pedido] /\ BotoesSeguem'
  <2>1. TelaTipada'
    BY <1>1, <1>9, Forma DEF Salvo, Vem, TelaTipada, DesenhoOK, banco, jogosLidos
  <2> QED
    BY <1>2, <1>3, <1>9, <2>1, Envios, TrocaSegue DEF Salvo, Vem, DoResultado
<1>10. ASSUME NEW i \in Fetches, Divulgado(i) \/ SessaoExpira(i)
       PROVE  TelaTipada' /\ fetch' \in [Fetches -> Pedido] /\ BotoesSeguem'
  <2>1. TelaTipada'
    BY <1>1, <1>10 DEF Divulgado, SessaoExpira, TelaTipada, DesenhoOK, banco, tela, jogosLidos
  <2>2. CASE Divulgado(i)
    BY <1>2, <1>3, <2>1, <2>2, Envios, TrocaSegue DEF Divulgado, Vem, DoResultado, botoes
  <2>3. CASE SessaoExpira(i)
    BY <1>2, <1>3, <2>1, <2>3, Envios, TrocaSegue DEF SessaoExpira, DoResultado, botoes
  <2> QED
    BY <1>10, <2>2, <2>3
<1>11. ASSUME NEW i \in Fetches, ChegamMetricas(i)
       PROVE  TelaTipada' /\ fetch' \in [Fetches -> Pedido] /\ BotoesSeguem'
  <2>1. TelaTipada'
    BY <1>1, <1>11, Linhas DEF ChegamMetricas, TelaTipada, DesenhoOK, banco, jogosLidos
  <2> QED
    BY <1>2, <1>11, <2>1, Envios, TrocaSegue DEF ChegamMetricas, Vem, DoResultado, Livre
<1>12. ASSUME NEW i \in Fetches, Excluido(i)
       PROVE  TelaTipada' /\ fetch' \in [Fetches -> Pedido] /\ BotoesSeguem'
  <2>1. TelaTipada'
    BY <1>1, <1>12 DEF Excluido, TelaTipada, DesenhoOK, banco, tela, jogosLidos
  <2> QED
    BY <1>12, <2>1, CargaSegue DEF Excluido, Vem, botoes
<1>13. ASSUME NEW i \in Fetches, Falha(i) \/ ErroNosJogos(i)
       PROVE  TelaTipada' /\ fetch' \in [Fetches -> Pedido] /\ BotoesSeguem'
  <2>1. TelaTipada'
    BY <1>1, <1>13 DEF Falha, ErroNosJogos, TelaTipada, DesenhoOK, banco, tela
  <2>2. CASE Falha(i)
    BY <1>2, <2>1, <2>2, Envios, TrocaSegue DEF Falha, DoResultado, Livre
  <2>3. CASE ErroNosJogos(i)
    BY <1>2, <2>1, <2>3, Envios, TrocaSegue DEF ErroNosJogos, DoResultado, Livre
  <2> QED
    BY <1>13, <2>2, <2>3
<1>14. CASE UNCHANGED varsPainel
  <2>1. TelaTipada'
    BY <1>1, <1>14 DEF varsPainel, banco, tela, jogosLidos, TelaTipada, DesenhoOK
  <2> QED
    BY <1>1, <1>14, <2>1 DEF varsPainel, botoes, IInvPainel, TypeOKPainel, BotoesSeguem, EmCurso,
       UmResultado
<1> QED
  BY <1>4, <1>5, <1>6, <1>7, <1>8, <1>9, <1>10, <1>11, <1>12, <1>13, <1>14 DEF NextPainel

-----------------------------------------------------------------------------
(* The theorems.                                                            *)

\* The inductive invariant, with requests that are answered in any order,
\* refused with a body of the server's own or lost: the types, one save and one
\* result at a time, the script holds a refusal only when the last reload
\* failed, what is saved is on display only while the buttons act upon it, and
\* the two properties themselves.  The buttons are disabled exactly while a
\* request of theirs is under way (admin.js:301, 321, 356, 380).
THEOREM Invariante == SpecPainel => []IInvPainel
<1>1. InitPainel => IInvPainel
  <2> SUFFICES ASSUME InitPainel PROVE IInvPainel
    OBVIOUS
  <2>1. /\ fetch = [i \in Fetches |-> fetch[i]]
        /\ \A i \in Fetches : fetch[i] \in {GET("jogos"), GET("landing"), Livre}
    BY DEF InitPainel
  <2>2. \A r \in {GET("jogos"), GET("landing"), Livre} :
          r \in Pedido /\ r.tipo \in {"jogos", "landing", "livre"}
    <3>1. GET("jogos").tipo = "jogos" /\ GET("landing").tipo = "landing" /\ Livre.tipo = "livre"
      BY DEF GET, Livre
    <3> QED
      BY <3>1, Envios
  <2>3. fetch \in [Fetches -> Pedido] /\ \A t \in DoResultado \cup {"salvar"} : ~EmCurso(t)
    BY <2>1, <2>2 DEF EmCurso, DoResultado
  <2>4. tabela \in Tabelas /\ jogosCache \in Tabelas
    <3>1. tabela \in [Jogos -> Placares \cup {Nulo}] /\ jogosCache \in [{} -> Placares \cup {Nulo}]
      BY DEF InitPainel
    <3> QED
      BY <3>1 DEF Tabelas
  <2>5. TypeOKPainel
    BY <2>3, <2>4 DEF InitPainel, TypeOKPainel
  <2>6. UmSalvar /\ UmResultado /\ SalvaOMostrado
    BY <2>3 DEF UmSalvar, UmResultado, SalvaOMostrado, EmCurso
  <2>7. PlacarDaTela /\ DesvioPassa /\ ~erroNoCache
    BY DEF InitPainel, PlacarDaTela, DesvioPassa
  <2> QED
    BY <2>5, <2>6, <2>7 DEF IInvPainel
<1>2. IInvPainel /\ [NextPainel]_varsPainel => IInvPainel'
  <2> SUFFICES ASSUME IInvPainel, [NextPainel]_varsPainel PROVE IInvPainel'
    OBVIOUS
  <2>0. Coerente
    BY Forma DEF IInvPainel, TypeOKPainel, Pedidos, Coerente, TelaEmOrdem
  <2> SUFFICES Coerente'
    BY PassoTipos DEF IInvPainel, Coerente, TelaEmOrdem
  <2>1. CASE (\E j \in Jogos : Seleciona(j)) \/ (\E p \in Placares : Digita(p))
    BY <2>0, <2>1, TelaMantem
  <2>2. ASSUME NEW i \in Fetches,
               Divulga(i) \/ (\E j \in Jogos : Exclui(i, j)) \/ Recarrega(i)
        PROVE  Coerente'
    BY <2>0, <2>2, CliquesMantem
  <2>3. ASSUME NEW i \in Fetches, Salva(i) \/ Salvo(i) \/ Falha(i) PROVE Coerente'
    BY <2>0, <2>3, SalvaMantem, SalvoMantem, FalhaMantem
  <2>4. ASSUME NEW i \in Fetches, Atende(i) PROVE Coerente'
    <3>1. SemNovoSalvar /\ AindaRecarrega /\ Pedidos'
      BY <2>0, <2>4, Atendimento DEF SemNovoSalvar, AindaRecarrega, Coerente
    <3>2. UNCHANGED <<jogosCache, erroNoCache, perdida, tela, salvando>>
      BY <2>4 DEF Atende, botoes, jogosLidos
    <3> QED
      BY <2>0, <3>1, <3>2, UmSalvarFica, TelaIntacta DEF Coerente
  <2>5. ASSUME NEW i \in Fetches,
               \/ ChegamJogos(i) \/ ChegamJogosDoResultado(i) \/ ErroNosJogos(i)
               \/ ChegaLanding(i) \/ ErroNaLanding(i)
        PROVE  Coerente'
    BY <2>0, <2>5, CargasMantem
  <2>6. ASSUME NEW i \in Fetches,
               Divulgado(i) \/ Excluido(i) \/ SessaoExpira(i) \/ ChegamMetricas(i)
        PROVE  Coerente'
    BY <2>0, <2>6, OutrasRespostasMantem, MetricasMantem
  <2>7. CASE UNCHANGED varsPainel
    BY <2>0, <2>7 DEF varsPainel, tela, jogosLidos, botoes, Coerente, TelaEmOrdem, Pedidos, UmSalvar,
       SalvaOMostrado, PlacarDaTela, DesvioPassa, EmCurso
  <2> QED
    BY <2>1, <2>2, <2>3, <2>4, <2>5, <2>6, <2>7 DEF NextPainel
<1> QED
  BY <1>1, <1>2, PTL DEF SpecPainel

\* No score of another game is left under the game on display, in whatever order
\* answers come and whichever requests are lost or refused, while the script
\* does not hold a refusal of the games (admin.js:406).
THEOREM PlacarSempreDaTela == SpecPainel => []PlacarDaTela
<1>1. IInvPainel => PlacarDaTela
  BY DEF IInvPainel
<1> QED
  BY <1>1, Invariante, PTL

\* The buttons act upon a game that is not on display only while the games are
\* being loaded again, or when the last such load failed.
THEOREM DesvioSemprePassa == SpecPainel => []DesvioPassa
<1>1. IInvPainel => DesvioPassa
  BY DEF IInvPainel
<1> QED
  BY <1>1, Invariante, PTL

=============================================================================
