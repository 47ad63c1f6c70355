------------------------------- MODULE Painel -------------------------------
(* The card of the landing in the administrators' panel: the current game   *)
(* chosen in a <select>, the score typed below it, and the requests that    *)
(* save the choice, publish the result and load both again.                 *)
(*                                                                          *)
(* An action is a click, or what happens when the answer of a fetch comes;  *)
(* several fetches are under way at once and are answered in any order.     *)
EXTENDS Integers

CONSTANTS
  Jogos,
  Placares,    \* scores an administrator may type
  Zero,        \* the score that empty fields are read as
  Fetches,     \* bound: how many requests are under way
  MaxCliques,  \* bound: how many times the administrator saves, publishes or deletes
  Nulo

ASSUME ZeroAssumption == Zero \in Placares

VARIABLES
  tabela,        \* server: the games there are and their scores, Nulo without one
  vinculado,     \* server: jogo_id of the landing, Nulo without one
  jogosCache,    \* the rows last loaded, that the list and the <select> show
  erroNoCache,   \* the variable of the script holds a refusal instead of rows
  landingJogoId, \* the game that the buttons of the card act upon
  selecionado,   \* the game the <select> shows
  placar,        \* the score fields, Nulo when empty
  placarDe,      \* history: the game on display when they were last written
  fetch,         \* the requests under way
  salvando,      \* the button "Salvar" is disabled
  divulgando,    \* the button "Divulgar Resultado" is disabled
  perdida,       \* history: the games were not loaded again when last asked for
  cliques

banco == <<tabela, vinculado>>
jogosLidos == <<jogosCache, erroNoCache, perdida>>
tela == <<landingJogoId, selecionado, placar, placarDe>>
botoes == <<salvando, divulgando>>
varsPainel == <<banco, jogosLidos, tela, fetch, botoes, cliques>>

-----------------------------------------------------------------------------
(* Requests.                                                                *)

Livre == [tipo |-> "livre"]
Outro(i) == CHOOSE k \in Fetches \ {i} : TRUE
GET(tipo) == [tipo |-> tipo, ida |-> TRUE]
PUT(tipo, j) == [tipo |-> tipo, ida |-> TRUE, jogo |-> j]
\* The result that is published: for which game, and what the screen showed.
Resultado == [tipo |-> "resultado", ida |-> TRUE, jogo |-> landingJogoId,
              placar |-> IF placar = Nulo THEN Zero ELSE placar,
              naTela |-> selecionado, placarDe |-> placarDe]

Vem(i, tipo) == fetch[i].tipo = tipo /\ ~fetch[i].ida
Faz(i, pedido) == fetch' = [fetch EXCEPT ![i] = pedido]

\* The server handles a request.
Atende(i) ==
  LET p == fetch[i] IN
  /\ p.tipo # "livre" /\ p.ida
  /\ \/ /\ p.tipo \in {"jogos", "jogosDoResultado"}
        /\ Faz(i, [tipo |-> p.tipo, ida |-> FALSE, linhas |-> tabela])
        /\ UNCHANGED banco
     \/ /\ p.tipo = "landing"
        /\ Faz(i, [tipo |-> p.tipo, ida |-> FALSE, jogo |-> vinculado])
        /\ UNCHANGED banco
     \/ /\ p.tipo = "metricas"
        /\ Faz(i, [p EXCEPT !.ida = FALSE])
        /\ UNCHANGED banco
     \/ /\ p.tipo = "salvar"
        /\ vinculado' = p.jogo
        /\ Faz(i, [p EXCEPT !.ida = FALSE])
        /\ UNCHANGED tabela
     \/ /\ p.tipo = "resultado" /\ p.jogo \in DOMAIN tabela
        /\ tabela' = [tabela EXCEPT ![p.jogo] = p.placar]
        /\ Faz(i, [p EXCEPT !.ida = FALSE])
        /\ UNCHANGED vinculado
     \/ /\ p.tipo = "excluir" /\ p.jogo \in DOMAIN tabela
        /\ tabela' = [j \in DOMAIN tabela \ {p.jogo} |-> tabela[j]]
        /\ Faz(i, [p EXCEPT !.ida = FALSE])
        /\ UNCHANGED vinculado
  /\ UNCHANGED <<jogosLidos, tela, botoes, cliques>>

-----------------------------------------------------------------------------
(* The screen.                                                              *)

\* Mutant: the score fields keep what they had.
SoConfronto(linhas, j) ==
  /\ selecionado' = IF j \in DOMAIN linhas THEN j ELSE Nulo
  /\ UNCHANGED <<placar, placarDe>>

\* popularSelectJogos, atualizarConfrontoDoJogo, atualizarResultado: the select
\* and the score fields show game `j`, if it is among the rows.
Redesenha(linhas, j) ==
  IF j \in DOMAIN linhas
  THEN selecionado' = j /\ placar' = linhas[j] /\ placarDe' = j
  ELSE selecionado' = Nulo /\ UNCHANGED <<placar, placarDe>>

\* The same from what the script holds.  A refusal is no array: the first use of
\* it throws, and `mostrado` is left in the select.
MostraJogo(j, mostrado) ==
  IF erroNoCache
  THEN selecionado' = mostrado /\ UNCHANGED <<placar, placarDe>>
  ELSE Redesenha(jogosCache, j)

Seleciona(j) ==
  /\ j \in DOMAIN jogosCache /\ j # selecionado
  /\ landingJogoId' = j
  /\ MostraJogo(j, j)
  /\ UNCHANGED <<banco, jogosLidos, fetch, botoes, cliques>>

Digita(p) ==
  /\ placar' = p /\ placarDe' = selecionado
  /\ UNCHANGED <<banco, jogosLidos, landingJogoId, selecionado, fetch, botoes, cliques>>

Clica == cliques < MaxCliques /\ cliques' = cliques + 1

Salva(i) ==
  /\ fetch[i] = Livre /\ ~salvando /\ Clica
  /\ salvando' = TRUE
  /\ Faz(i, PUT("salvar", landingJogoId))
  /\ UNCHANGED <<banco, jogosLidos, tela, divulgando>>

Divulga(i) ==
  /\ fetch[i] = Livre /\ ~divulgando /\ landingJogoId # Nulo /\ Clica
  /\ divulgando' = TRUE
  /\ Faz(i, Resultado)
  /\ UNCHANGED <<banco, jogosLidos, tela, salvando>>

Exclui(i, j) ==
  /\ fetch[i] = Livre /\ j \in DOMAIN jogosCache /\ Clica
  /\ Faz(i, PUT("excluir", j))
  /\ UNCHANGED <<banco, jogosLidos, tela, botoes>>

\* carregarTudo, of which two requests concern the card.
CarregaTudo(i) ==
  \E k \in Fetches \ {i} :
    /\ fetch[k] = Livre
    /\ fetch' = [fetch EXCEPT ![i] = GET("jogos"), ![k] = GET("landing")]

\* What else loads the games again: a game registered, activated or
\* deactivated, an edit cancelled; with the landing, an edit or a new login.
Recarrega(i) ==
  /\ fetch[i] = Livre /\ Clica
  /\ Faz(i, GET("jogos")) \/ CarregaTudo(i)
  /\ UNCHANGED <<banco, jogosLidos, tela, botoes>>

-----------------------------------------------------------------------------
(* Answers.                                                                 *)

\* The games are in: they are kept and the card is drawn from them.
ChegamLinhas(linhas) ==
  /\ jogosCache' = linhas
  /\ erroNoCache' = FALSE /\ perdida' = FALSE
  /\ Redesenha(linhas, landingJogoId)

ChegamJogos(i) ==
  /\ Vem(i, "jogos")
  /\ ChegamLinhas(fetch[i].linhas)
  /\ Faz(i, Livre)
  /\ UNCHANGED <<banco, landingJogoId, botoes, cliques>>

ChegaLanding(i) ==
  /\ Vem(i, "landing")
  /\ landingJogoId' = fetch[i].jogo
  /\ MostraJogo(landingJogoId', selecionado)
  /\ Faz(i, Livre)
  /\ UNCHANGED <<banco, jogosLidos, botoes, cliques>>

\* Mutant: the answer of a save is taken over and the games are not reloaded.
SalvoSemRecarregar(i) ==
  /\ Vem(i, "salvar")
  /\ landingJogoId' = IF fetch[i].jogo # Nulo THEN fetch[i].jogo ELSE landingJogoId
  /\ Faz(i, Livre)
  /\ salvando' = FALSE
  /\ UNCHANGED <<banco, jogosLidos, selecionado, placar, placarDe, divulgando, cliques>>

\* The saved game is taken over; the games are loaded again.
Salvo(i) ==
  /\ Vem(i, "salvar")
  /\ landingJogoId' = IF fetch[i].jogo # Nulo THEN fetch[i].jogo ELSE landingJogoId
  /\ Faz(i, GET("jogos"))
  /\ salvando' = FALSE
  /\ UNCHANGED <<banco, jogosLidos, selecionado, placar, placarDe, divulgando, cliques>>

\* The result is in: the games, then the other cards, then the card again.
Divulgado(i) ==
  /\ Vem(i, "resultado")
  /\ Faz(i, GET("jogosDoResultado"))
  /\ UNCHANGED <<banco, jogosLidos, tela, botoes, cliques>>

ChegamJogosDoResultado(i) ==
  /\ Vem(i, "jogosDoResultado")
  /\ ChegamLinhas(fetch[i].linhas)
  /\ Faz(i, GET("metricas"))
  /\ UNCHANGED <<banco, landingJogoId, botoes, cliques>>

\* The figures, or a refusal, which is displayed as if it were figures.
ChegamMetricas(i) ==
  /\ Vem(i, "metricas")
  /\ IF ~erroNoCache /\ landingJogoId \in DOMAIN jogosCache
     THEN placar' = jogosCache[landingJogoId] /\ placarDe' = landingJogoId
     ELSE UNCHANGED <<placar, placarDe>>
  /\ divulgando' = FALSE
  /\ Faz(i, Livre)
  /\ UNCHANGED <<banco, jogosLidos, landingJogoId, selecionado, salvando, cliques>>

Excluido(i) ==
  /\ Vem(i, "excluir")
  /\ CarregaTudo(i)
  /\ UNCHANGED <<banco, jogosLidos, tela, botoes, cliques>>

\* The server refuses a load with a body of its own, {erro}.  Neither function
\* tests the status: the body takes the place of the games and the card is not
\* drawn again, and a landing without jogo_id is one without a current game.
ErroNosJogos(i) ==
  /\ fetch[i].tipo \in {"jogos", "jogosDoResultado"} /\ fetch[i].ida
  /\ erroNoCache' = TRUE /\ perdida' = TRUE
  /\ divulgando' = (divulgando /\ fetch[i].tipo # "jogosDoResultado")
  /\ Faz(i, Livre)
  /\ UNCHANGED <<banco, jogosCache, tela, salvando, cliques>>

ErroNaLanding(i) ==
  /\ fetch[i].tipo = "landing" /\ fetch[i].ida
  /\ landingJogoId' = Nulo
  /\ MostraJogo(Nulo, selecionado)
  /\ Faz(i, Livre)
  /\ UNCHANGED <<banco, jogosLidos, botoes, cliques>>

\* The session is over when the games are loaded again after a result: the login
\* is shown, and the function goes on as if they had come.
SessaoExpira(i) ==
  /\ fetch[i].tipo = "jogosDoResultado" /\ fetch[i].ida
  /\ perdida' = TRUE
  /\ Faz(i, GET("metricas"))
  /\ UNCHANGED <<banco, jogosCache, erroNoCache, tela, botoes, cliques>>

\* Mutant: the buttons are only enabled again after a success.
FalhaSemFinally(i) ==
  /\ fetch[i] # Livre
  /\ perdida' = (perdida \/ fetch[i].tipo \in {"jogos", "jogosDoResultado"})
  /\ Faz(i, Livre)
  /\ UNCHANGED <<banco, jogosCache, erroNoCache, tela, botoes, cliques>>

\* No answer that a script can read comes, the session is over, or the server
\* refuses something that is not a load, before or after it did what was asked.
Falha(i) ==
  /\ fetch[i] # Livre
  /\ salvando' = (salvando /\ fetch[i].tipo # "salvar")
  /\ divulgando' = (divulgando /\ fetch[i].tipo \notin {"resultado", "jogosDoResultado", "metricas"})
  /\ perdida' = (perdida \/ fetch[i].tipo \in {"jogos", "jogosDoResultado"})
  /\ Faz(i, Livre)
  /\ UNCHANGED <<banco, jogosCache, erroNoCache, tela, cliques>>

-----------------------------------------------------------------------------
\* The panel is shown and both requests of the card are under way.
InitPainel ==
  /\ tabela = [j \in Jogos |-> Nulo]
  /\ vinculado \in Jogos \cup {Nulo}
  /\ jogosCache = [j \in {} |-> Nulo]
  /\ landingJogoId = Nulo /\ selecionado = Nulo
  /\ placar = Nulo /\ placarDe = Nulo
  /\ LET i == CHOOSE x \in Fetches : TRUE IN
     fetch = [x \in Fetches |-> IF x = i THEN GET("jogos")
                                ELSE IF x = Outro(i) THEN GET("landing") ELSE Livre]
  /\ salvando = FALSE /\ divulgando = FALSE
  /\ erroNoCache = FALSE /\ perdida = FALSE
  /\ cliques = 0

NextPainel ==
  \/ \E j \in Jogos : Seleciona(j)
  \/ \E p \in Placares : Digita(p)
  \/ \E i \in Fetches :
       \/ Salva(i) \/ Divulga(i) \/ (\E j \in Jogos : Exclui(i, j)) \/ Recarrega(i)
       \/ Atende(i) \/ Falha(i) \/ SessaoExpira(i) \/ ErroNosJogos(i) \/ ErroNaLanding(i)
       \/ ChegamJogos(i) \/ ChegaLanding(i) \/ Salvo(i) \/ Divulgado(i)
       \/ ChegamJogosDoResultado(i) \/ ChegamMetricas(i) \/ Excluido(i)

SpecPainel == InitPainel /\ [][NextPainel]_varsPainel

-----------------------------------------------------------------------------
EmCurso(tipo) == \E i \in Fetches : fetch[i].tipo = tipo

\* What a table of games may be, and a request under way or answered.
Tabelas == UNION {[J -> Placares \cup {Nulo}] : J \in SUBSET Jogos}
Pedido ==
  LET doJogo == Jogos \cup {Nulo} IN
  UNION {
    {Livre},
    [tipo : {"jogos", "jogosDoResultado", "landing", "metricas"}, ida : {TRUE}],
    [tipo : {"jogos", "jogosDoResultado"}, ida : {FALSE}, linhas : Tabelas],
    [tipo : {"landing"}, ida : {FALSE}, jogo : doJogo],
    [tipo : {"metricas"}, ida : {FALSE}],
    [tipo : {"salvar"}, ida : BOOLEAN, jogo : doJogo],
    [tipo : {"excluir"}, ida : BOOLEAN, jogo : Jogos],
    [tipo : {"resultado"}, ida : BOOLEAN, jogo : Jogos, placar : Placares,
     naTela : doJogo, placarDe : doJogo]}

DoResultado == {"resultado", "jogosDoResultado", "metricas"}

\* The types: what the screen keeps of a game that was deleted is still one of
\* `Jogos`, and the buttons are disabled only while their request is under way.
TypeOKPainel ==
  /\ tabela \in Tabelas /\ jogosCache \in Tabelas
  /\ {vinculado, landingJogoId, selecionado, placarDe} \subseteq Jogos \cup {Nulo}
  /\ placar \in Placares \cup {Nulo}
  /\ fetch \in [Fetches -> Pedido]
  /\ {erroNoCache, perdida, salvando, divulgando} \subseteq BOOLEAN
  /\ salvando <=> EmCurso("salvar")
  /\ divulgando <=> \E t \in DoResultado : EmCurso(t)

\* The score fields belong to the game on display, whatever answers came in
\* between and in whatever order, requests that failed and landings that were
\* refused among them: the score of another game is never left under it.  The
\* exception is the time after a refusal of the games (admin.js:406), see
\* ResultadoComPlacarProprio.
PlacarDaTela ==
  ~erroNoCache /\ selecionado # Nulo /\ selecionado = landingJogoId => placarDe = selecionado

\* The game the buttons act upon differs from the one on display only while the
\* games are being loaded again, or when the last reload failed: the reload that
\* every save is followed by puts the two together (admin.js:368-370).
DesvioPassa ==
  landingJogoId \in DOMAIN jogosCache /\ selecionado # landingJogoId =>
    perdida \/ EmCurso("jogos") \/ EmCurso("jogosDoResultado")

\* "Mantém o jogo selecionado" (admin.js:368), "divulga o resultado do jogo
\* atual" (admin.js:290): a result goes to the game that the select shows, at
\* least while the games were loaded whenever they were asked for.  The code
\* does not keep it.
ResultadoDoJogoAtual ==
  \A i \in Fetches :
    fetch[i].tipo = "resultado" /\ fetch[i].naTela # Nulo /\ ~perdida =>
      fetch[i].jogo = fetch[i].naTela

\* "Reflete o placar/status do jogo atual no card Resultado Oficial"
\* (admin.js:267): a score published for the game on display is not one that was
\* written in the fields for another game.  The code does not keep it: after a
\* refusal of the games, choosing a game leaves the score of the one before in
\* the fields (admin.js:211).  Scores of empty fields are left out.
ResultadoComPlacarProprio ==
  \A i \in Fetches :
    fetch[i].tipo = "resultado" /\ fetch[i].jogo = fetch[i].naTela /\ fetch[i].placar # Zero =>
      fetch[i].placarDe \in {fetch[i].jogo, Nulo}

-----------------------------------------------------------------------------
(* The inductive invariant: one save and one result at a time, the script   *)
(* holds a refusal only when the last reload failed, and until then the     *)
(* game being saved is on display only while the buttons act upon it.       *)

UmSalvar ==
  \A i \in Fetches : fetch[i].tipo = "salvar" =>
    salvando /\ \A k \in Fetches : fetch[k].tipo = "salvar" => k = i

UmResultado ==
  \A i, k \in Fetches : {fetch[i].tipo, fetch[k].tipo} \subseteq DoResultado => k = i

SalvaOMostrado ==
  \A i \in Fetches :
    /\ ~erroNoCache /\ selecionado # Nulo
    /\ fetch[i].tipo = "salvar" /\ fetch[i].jogo = selecionado
    => selecionado = landingJogoId

IInvPainel ==
  /\ TypeOKPainel
  /\ UmSalvar /\ UmResultado /\ SalvaOMostrado
  /\ erroNoCache => perdida
  /\ PlacarDaTela /\ DesvioPassa

=============================================================================
