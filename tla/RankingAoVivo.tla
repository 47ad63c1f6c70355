--------------------------- MODULE RankingAoVivo ---------------------------
(* The live ranking: requests that write and then announce it on a          *)
(* broadcast channel (state.rs, main.rs), the SSE stream of each browser    *)
(* (routes/sse.rs) and the page that fetches the ranking again at each      *)
(* notice (static/js/ranking-sse.js).                                       *)
(*                                                                          *)
(* A notice carries no data, so the ranking itself is abstracted to the     *)
(* number of writes it reflects.  Nothing orders a write and its notice     *)
(* with the other writes, a notice and the subscription of a page, or the   *)
(* answers of two fetches of one page.                                      *)
EXTENDS Naturals

CONSTANTS
  Clientes,   \* the browsers with a page that shows the ranking
  Buscas,     \* bound: the fetches one page may have under way
  Cap,        \* the messages the channel retains: 100 or more (main.rs:28)
  MaxEscritas,\* bound: the writes
  Falhas      \* what may fail: "aviso", "conexao", "busca"

ASSUME ConstantesAssumption ==
  /\ Buscas # {}
  /\ Cap \in Nat \ {0}
  /\ MaxEscritas \in Nat

VARIABLES
  versao,      \* the writes committed
  porAvisar,   \* handlers between their write and their ranking_tx.send
  enviados,    \* the messages sent on the channel
  conexao,     \* per page: the state of its EventSource
  proximo,     \* per page: how many messages its receiver has left behind
  aCaminho,    \* per page: events written to its connection, not yet handled
  busca,       \* per page and fetch: where the fetch is
  lida,        \* per page and fetch: the version its answer carries
  recente,     \* per page: the fetch made last
  exibida,     \* per page: the version on the screen
  exibeRecente,\* per page: what is on the screen answers `recente`
  \* History, read by the properties only:
  pedida,      \* per page: the version when it made `recente`
  avisada      \* per page: the version at the last notice of this connection

servidor == <<versao, porAvisar, enviados>>
canal    == <<conexao, proximo, aCaminho, avisada>>
pagina   == <<busca, lida, recente, exibida, exibeRecente, pedida>>
vars     == <<servidor, canal, pagina>>

Conexoes == {"nenhuma", "conectando", "aberta", "fechada"}
Etapas   == {"livre", "pedida", "lida"}

Aberta(c) == conexao[c] = "aberta"

-----------------------------------------------------------------------------
\* A handler commits what changes the ranking; its send comes afterwards.
Escreve ==
  /\ versao < MaxEscritas
  /\ versao' = versao + 1
  /\ porAvisar' = porAvisar + 1
  /\ UNCHANGED <<enviados, canal, pagina>>

\* ranking_tx.send("atualizar"): one message for every receiver there is now.
Avisa ==
  /\ porAvisar > 0
  /\ porAvisar' = porAvisar - 1
  /\ enviados' = enviados + 1
  /\ avisada' = [c \in Clientes |-> IF Aberta(c) THEN versao ELSE avisada[c]]
  /\ UNCHANGED <<versao, conexao, proximo, aCaminho, pagina>>

\* The handler ends between write and send: the answer of a later statement is
\* an error (`?`), or its future is dropped.
Abandona ==
  /\ "aviso" \in Falhas
  /\ porAvisar > 0
  /\ porAvisar' = porAvisar - 1
  /\ UNCHANGED <<versao, enviados, canal, pagina>>

-----------------------------------------------------------------------------
\* carregarRanking: a fetch is made, whatever else is under way.
Pede(c, i) ==
  /\ busca[c][i] = "livre"
  /\ busca' = [busca EXCEPT ![c][i] = "pedida"]
  /\ recente' = [recente EXCEPT ![c] = i]
  /\ exibeRecente' = [exibeRecente EXCEPT ![c] = FALSE]
  /\ pedida' = [pedida EXCEPT ![c] = versao]
  /\ UNCHANGED <<lida, exibida>>

\* DOMContentLoaded: the first fetch, and at once the EventSource.
Carrega(c) ==
  /\ conexao[c] = "nenhuma"
  /\ \E i \in Buscas : Pede(c, i)
  /\ conexao' = [conexao EXCEPT ![c] = "conectando"]
  /\ UNCHANGED <<servidor, proximo, aCaminho, avisada>>

\* Mutant: the receiver starts one message ahead of the tail.
DaProxima == enviados + 1

\* ranking_tx.subscribe(): a receiver gets what is sent from now on.
DaCauda == enviados

\* ranking_stream answers: the connection is open.
Assina(c) ==
  /\ conexao[c] = "conectando"
  /\ conexao' = [conexao EXCEPT ![c] = "aberta"]
  /\ proximo' = [proximo EXCEPT ![c] = DaCauda]
  /\ avisada' = [avisada EXCEPT ![c] = 0]
  /\ UNCHANGED <<aCaminho, servidor, pagina>>

\* The connection drops, and EventSource connects again by itself; events on
\* their way are lost, and onerror only logs.
Cai(c) ==
  /\ "conexao" \in Falhas
  /\ Aberta(c)
  /\ conexao' = [conexao EXCEPT ![c] = "conectando"]
  /\ aCaminho' = [aCaminho EXCEPT ![c] = 0]
  /\ UNCHANGED <<proximo, avisada, servidor, pagina>>

\* An answer other than 200 to the connection closes an EventSource for good.
Fecha(c) ==
  /\ "conexao" \in Falhas
  /\ conexao[c] = "conectando"
  /\ conexao' = [conexao EXCEPT ![c] = "fechada"]
  /\ UNCHANGED <<proximo, aCaminho, avisada, servidor, pagina>>

\* The receiver fell behind what the channel retains: Err(Lagged).
Atrasado(c) == enviados - proximo[c] > Cap

\* Mutant: a stream that ends up waiting at Err(Lagged).
PuxaSoEmDia(c) ==
  /\ Aberta(c) /\ proximo[c] < enviados /\ ~Atrasado(c)
  /\ proximo' = [proximo EXCEPT ![c] = @ + 1]
  /\ aCaminho' = [aCaminho EXCEPT ![c] = @ + 1]
  /\ UNCHANGED <<conexao, avisada, servidor, pagina>>

\* The stream is polled: a message or a lag, each becomes an event "atualizar";
\* after a lag the receiver goes on with the oldest message retained.
Puxa(c) ==
  /\ Aberta(c)
  /\ proximo[c] < enviados
  /\ proximo' = [proximo EXCEPT ![c] = IF Atrasado(c) THEN enviados - Cap ELSE @ + 1]
  /\ aCaminho' = [aCaminho EXCEPT ![c] = @ + 1]
  /\ UNCHANGED <<conexao, avisada, servidor, pagina>>

\* Mutant: notices that arrive while a fetch is under way are ignored.
RecebeUmaPorVez(c) ==
  /\ Aberta(c)
  /\ aCaminho[c] > 0
  /\ aCaminho' = [aCaminho EXCEPT ![c] = @ - 1]
  /\ IF \A i \in Buscas : busca[c][i] = "livre"
     THEN \E i \in Buscas : Pede(c, i)
     ELSE UNCHANGED pagina
  /\ UNCHANGED <<conexao, proximo, avisada, servidor>>

\* es.onmessage
Recebe(c) ==
  /\ Aberta(c)
  /\ aCaminho[c] > 0
  /\ aCaminho' = [aCaminho EXCEPT ![c] = @ - 1]
  /\ \E i \in Buscas : Pede(c, i)
  /\ UNCHANGED <<conexao, proximo, avisada, servidor>>

\* The pagination buttons and the search field, 250 ms after the last key.
Navega(c) ==
  /\ conexao[c] # "nenhuma"
  /\ \E i \in Buscas : Pede(c, i)
  /\ UNCHANGED <<servidor, canal>>

\* Mutant: an HTTP cache answers with what the page got before.
DoCache(c) == IF exibida[c] > 0 THEN exibida[c] ELSE versao

\* What the query of ranking_completo sees: every write committed before it.
Consulta(c) == versao

\* ranking_completo runs its query; the answer travels back afterwards.
Le(c, i) ==
  /\ busca[c][i] = "pedida"
  /\ busca' = [busca EXCEPT ![c][i] = "lida"]
  /\ lida' = [lida EXCEPT ![c][i] = Consulta(c)]
  /\ UNCHANGED <<recente, exibida, exibeRecente, pedida, servidor, canal>>

\* The answer is rendered, in the order the answers arrive.
Exibe(c, i) ==
  /\ busca[c][i] = "lida"
  /\ busca' = [busca EXCEPT ![c][i] = "livre"]
  /\ exibida' = [exibida EXCEPT ![c] = lida[c][i]]
  /\ exibeRecente' = [exibeRecente EXCEPT ![c] = (i = recente[c])]
  /\ lida' = [lida EXCEPT ![c][i] = 0]
  /\ UNCHANGED <<recente, pedida, servidor, canal>>

\* The fetch fails or answers an error: the screen is left as it was.
FalhaBusca(c, i) ==
  /\ "busca" \in Falhas
  /\ busca[c][i] # "livre"
  /\ busca' = [busca EXCEPT ![c][i] = "livre"]
  /\ lida' = [lida EXCEPT ![c][i] = 0]
  /\ UNCHANGED <<recente, exibida, exibeRecente, pedida, servidor, canal>>

-----------------------------------------------------------------------------
Init ==
  /\ versao = 0 /\ porAvisar = 0 /\ enviados = 0
  /\ conexao = [c \in Clientes |-> "nenhuma"]
  /\ proximo = [c \in Clientes |-> 0]
  /\ aCaminho = [c \in Clientes |-> 0]
  /\ avisada = [c \in Clientes |-> 0]
  /\ busca = [c \in Clientes |-> [i \in Buscas |-> "livre"]]
  /\ lida = [c \in Clientes |-> [i \in Buscas |-> 0]]
  /\ recente = [c \in Clientes |-> CHOOSE i \in Buscas : TRUE]
  /\ exibida = [c \in Clientes |-> 0]
  /\ exibeRecente = [c \in Clientes |-> FALSE]
  /\ pedida = [c \in Clientes |-> 0]

Termina(c, i) == Exibe(c, i) \/ FalhaBusca(c, i)

Next ==
  \/ Escreve \/ Avisa \/ Abandona
  \/ \E c \in Clientes :
       \/ Carrega(c) \/ Assina(c) \/ Cai(c) \/ Fecha(c)
       \/ Puxa(c) \/ Recebe(c) \/ Navega(c)
       \/ \E i \in Buscas : Le(c, i) \/ Termina(c, i)

Spec == Init /\ [][Next]_vars

\* The runtime polls a stream that has something to send, the browser handles
\* the events of an open connection, and every fetch ends in an answer or an
\* error.  Writes, connections and the user are under no obligation.  Recebe
\* has strong fairness because of the bound Buscas alone: in the browser no
\* fetch waits for another one to end.
Justica ==
  \A c \in Clientes :
    /\ WF_vars(Puxa(c))
    /\ SF_vars(Recebe(c))
    /\ \A i \in Buscas : WF_vars(Le(c, i)) /\ WF_vars(Termina(c, i))

SpecJusta == Spec /\ Justica

-----------------------------------------------------------------------------
\* Every notice of this connection has been handled.
EmDia(c) == Aberta(c) /\ proximo[c] = enviados /\ aCaminho[c] = 0

\* The types; a receiver never runs ahead of the channel.
TypeOK ==
  /\ versao \in 0..MaxEscritas
  /\ porAvisar \in Nat /\ enviados \in Nat
  /\ porAvisar + enviados <= versao
  /\ conexao \in [Clientes -> Conexoes]
  /\ proximo \in [Clientes -> Nat]
  /\ \A c \in Clientes : proximo[c] <= enviados
  /\ aCaminho \in [Clientes -> Nat]
  /\ avisada \in [Clientes -> 0..versao]
  /\ busca \in [Clientes -> [Buscas -> Etapas]]
  /\ lida \in [Clientes -> [Buscas -> 0..versao]]
  /\ recente \in [Clientes -> Buscas]
  /\ exibida \in [Clientes -> 0..versao]
  /\ exibeRecente \in [Clientes -> BOOLEAN]
  /\ pedida \in [Clientes -> 0..versao]

\* No notice is lost while the connection lasts, however far the receiver
\* falls behind the channel (sse.rs:16-19): when a page has handled all of
\* them, it has asked for the ranking since the last one was sent.
AvisoNaoSePerde == \A c \in Clientes : EmDia(c) => pedida[c] >= avisada[c]

\* A page that is up to date with its notices and shows the answer of its last
\* fetch (ranking-sse.js:89-111) shows every write announced to it.
ExibeOAvisado ==
  \A c \in Clientes : EmDia(c) /\ exibeRecente[c] => exibida[c] >= avisada[c]

\* The strengthening both rest on: a notice not yet followed by a fetch is
\* still in the channel or on the connection,
PendenteOuPedida ==
  \A c \in Clientes : Aberta(c) /\ pedida[c] < avisada[c] =>
                        proximo[c] < enviados \/ aCaminho[c] > 0

\* and the last fetch, wherever it is, carries at least the version of the
\* moment it was made.
RecenteTrazPedida ==
  \A c \in Clientes :
    /\ exibeRecente[c] => exibida[c] >= pedida[c]
    /\ busca[c][recente[c]] = "lida" => lida[c][recente[c]] >= pedida[c]

IInv == TypeOK /\ PendenteOuPedida /\ RecenteTrazPedida

\* Every write announced on an open connection is eventually followed by a
\* fetch of that page, unless the connection drops.
AvisoViraPedido ==
  \A c \in Clientes : \A v \in 1..MaxEscritas :
    Aberta(c) /\ avisada[c] = v ~> ~Aberta(c) \/ pedida[c] >= v

\* "mantém atualizado via SSE" (ranking-sse.js:3), "atualiza ao vivo via SSE"
\* (README.md:70): once every handler has ended, the notices are handled and
\* the fetches are answered, a connected page shows the ranking as it is.
MantemAtualizado ==
  \A c \in Clientes :
    EmDia(c) /\ porAvisar = 0 /\ (\A i \in Buscas : busca[c][i] = "livre")
      => exibida[c] = versao

=============================================================================
