# Bolão SuperCopo: a TLA+ model

The repository is a prize pool for football games: players guess the score of
the active game on a public page and receive a discount coupon; the
administrator enters the result, guesses are scored, exact guesses get a larger
coupon, and the ranking updates live. The server is a Rust/Axum program over
PostgreSQL (`crates/server`), the client plain JavaScript (`static/js`).

This directory holds TLA+ modules translated from that source, the TLC
configurations that check them, and proofs for TLAPS. Names follow the code (in
Portuguese); comments are in English. Paths below are relative to the repository
root, `S/` stands for `crates/server/src/`.

## 1. Inventory

| Component | State it keeps | Operations | Hard behaviour | What makes it correct |
|---|---|---|---|---|
| Submissions, `S/routes/palpites.rs`, `S/bolao.rs` | rows of `usuarios`, `palpites`, `cupons` | `enviar_palpite` (eight statements, no transaction); reads: `jogo_ativo`, `meus_cupons` | several submissions at once; submission against result, edit, closing or deletion; stopping between two statements | one guess per player and game; a player told "registrado" has guess and coupon at the announced discount; no coupon without a guess |
| Results, `S/routes/admin.rs:124-232` | `jogos` (score, status), `palpites.pontuacao`, `cupons.tipo` | `informar_resultado`, one transaction | correction of a result, two at once, late submissions, failure in the loop, configuration saved meanwhile | points are those of the score shown; 10 points if and only if an exact-guess coupon; one discount for all winners of a game |
| Administration of games and coupons, `S/routes/admin.rs` | `jogos`, `cupons.utilizado` | register, activate, deactivate, edit, delete, mark as used | races with a result; two columns for one fact | `ativo` and `status` agree; only activation reopens a finished game |
| Landing, `S/landing.rs`, `admin.rs:488-511` | `config['landing_config']` | `carregar`, `salvar_landing` (two statements) | saved between a read and its use | discounts promised are discounts given |
| Scoring, `S/routes/mod.rs` | none | `calcular_pontos`, `vencedor` | draws | the published rules (`regras.html`) |
| Limiter, `S/ratelimit.rs` | map IP -> instants, in memory, under a mutex | `checar`, `checar_login` | clock read before the mutex; window boundary; restart | limit per window; a refusal does not extend the wait |
| Live ranking, `S/routes/sse.rs`, `S/state.rs`, `static/js/ranking-sse.js` | broadcast channel, one receiver per open page, fetches under way in the page | send, subscribe, stream, fetch, render, reconnect | lag, lost notices, reconnection, answers out of order | every notice is followed by a fetch; a page shows what it was told of |
| Queries: ranking, podium, metrics, final table (`S/routes/ranking.rs`, `paginas.rs`, `admin.rs:300-486`) | none | read-only | two queries of one answer; ties, limits and pages, written three times | pages partition what was found; the lists agree on order, places and winners |
| Field validation, `S/validacao.rs` | none | e-mail, phone | normalisation | equal people get equal keys |
| Admin login, `S/auth.rs` | none (signed token) | login, middleware | - | - |
| Home page: form, modals, Back button (`form.js`, `modal-historico.js`) | `hidden` of two modals, a flag, a timer, the history of the tab | submit, open, close, Back, Forward | `history.back()`, `popstate` and the timer are asynchronous; the coupon opens while the form is being undone | Back closes what is open, and leaves when nothing is; the script never leaves the page |
| Administrators' panel (`admin.js`) | rows last loaded, chosen game, score fields, two buttons | choose, type, save, publish, delete, load again | several requests at once, each of which redraws; answers in any order, error bodies taken for data, or no answer | the score shown belongs to the game shown; a result goes to that game |
| Pages, templates, other scripts, start-up, migrations, deployment | - | rendering, wiring | - | - |

How they interact: all handlers share the PostgreSQL pool and interleave at
every `.await`; the submission and the login ask the limiter first; submission
and result read the landing configuration; every request that writes sends one
message on the broadcast channel, except the activation of a game (`ativar_jogo`,
`admin.rs:79-93`, sends none), and every open page turns a message into a
`GET /api/ranking`. `PROJECT.json` lists each component with its status and each
hazard at its source line with the properties aimed at it.

## 2. Modules

| Module | Models | Used by |
|---|---|---|
| `Pontuacao` | `calcular_pontos`, `vencedor`, and the published rules | `Bolao`, `Premiacao`, `Classificacao` |
| `Premiacao` | abstract specification: what the pool promises its players, a result being one step | `BolaoPropriedades` |
| `Bolao` | the tables and every handler that writes them | `BolaoPropriedades` |
| `BolaoPropriedades` | properties of `Bolao`, its inductive invariants, the refinement mapping to `Premiacao`, and what the documents claim | `MCBolao`, proofs |
| `Classificacao` | the pages that read the tables: ranking, podium, final classification, hit rate | `MCServidor`, proofs |
| `RateLimit` | `checar_com` as any number of concurrent calls | `MCServidor`, proofs |
| `RankingAoVivo` | writers, broadcast channel, SSE streams, pages | `MCRankingAoVivo`, `MCNavegador`, proofs |
| `Modais` | the home page in a tab: form, coupon, history | `MCNavegador`, proofs |
| `Painel` | the landing card of the administrators' panel | `MCNavegador`, runs `resultado_trocado` and `placar_alheio`, proofs |
| `MC*` + `.cfg` | finite instances for TLC. `MCNavegador` is one tab with one of three pages, and `MCServidor` one of the parts of the server that share no state (rules, pages, limiter); they extend all of their modules, hence `InitModais`, `NextPainel`, `SpecLimitador`, ... `MCCorrida` is `MCBolao` with every started handler driven to its end | - |
| `*Proofs` | theorems for all values of the constants | - |

`Bolao` extends `Pontuacao`: the score of a guess inside the result transaction
is the same operator that the scoring run checks. `RateLimit` and
`RankingAoVivo` meet `Bolao` only through an outcome (refused with
`MuitasRequisicoes`) and through the notices; `Modais` meets it through the answer
to a submission and `Painel` through requests that are each one action here, so
they are separate. `Classificacao` reads tables that whole requests write: that
readers never see half a result is what `ImplementaPremiacao` says of `Bolao`.

### How `Bolao` implements `Premiacao`

`Premiacao` has three variables (published scores, guesses with points, prizes)
and three actions: a player guesses, a score is published or corrected for the
guesses that were seen, a game is cancelled. The mapping (`BolaoPropriedades`)
reads them off the tables: a prize is a coupon whose `tipo` comes from the
discount for exact guesses. Only `InserePalpite`, `Confirma` and `DeletarJogo`
move; every other statement, rollback or interruption must be a stutter.
`OrigemDoResultado` ties the buffered writes of an open transaction to the
guesses it has read. The abstract result may overlook guesses that came too late,
but never one that has points: that is the strongest statement the code
satisfies (`nao_apurado` shows the late guess).

### How `Bolao` corresponds to the code

* **One action is one SQL statement** together with the local code before the
  next `.await`. Statements on the pool commit at once. `envio[r]` names the next
  statement of a submission, or its answer; `ap[a].pc` and `landing[s].pc` do the
  same for results and landing saves.
* **The transaction of a result** is READ COMMITTED. Its reads
  (`BuscaPalpites`, `ZeraCupons`, the UPDATE of `PontuaPalpite` that counts the
  coupons it matched) see what others have committed by then; its writes are kept
  in `ap[a]` (`lista`, `zerados`, `acertos`) and become visible at `Confirma`.
  From its UPDATE of `jogos` to the end it holds the row lock `trava[j]`: other
  UPDATEs and DELETEs of the game wait, INSERTs that only reference it (a KEY
  SHARE lock) do not. That asymmetry is what the interesting races rest on.
* **Failure**: a failing query, a client that hangs up (Axum drops the future)
  and a restart all stop a handler between two statements: `Interrompe`,
  `Desfaz` (with rollback and release of the lock), `InterrompeLanding`.
* **Keys and cascades** of the migrations are part of the statements: UNIQUE
  (usuario_id, jogo_id), `ON DELETE CASCADE` of guesses, `ON DELETE SET NULL` of
  coupons (`Existe` in `CuponsDoJogo`: rows of a deleted game match no query).
* **Data** is reduced to what the statements compare. E-mail and phone are model
  values reached through `ValidarEmail` and `SomenteDigitos` (two texts may give
  one address; some give none). A coupon's `tipo` is the percentage and which of
  the two landing discounts it was formatted from. Rows are named by the request
  that inserted them, and every request is sent at most once: a retry of a player
  is another request with equal contents.
* **Over-approximations**: the order of the loop over guesses is arbitrary;
  `MarcarCupom` does not wait for a result that has updated the same coupon row.

### How `RateLimit` corresponds to the code

`LeRelogio` is `Instant::now()` (line 43), `Checa` the section under the mutex:
purge of all addresses, count, refusal or record. `Tick` is the clock; `Reinicia`
empties the map. A record is named by the call that made it, its instant is
`instante[c]`. Guess limiter (5 in 60 s) and login limiter (10 in 60 s) are
instances of the constants `MaxPorJanela` and `Janela`.

### How `RankingAoVivo` corresponds to the code

`versao` counts the committed writes, and an answer carries the version its query
saw. `Escreve`, `Avisa`, `Abandona`: a handler between its write and its
`ranking_tx.send`. `Assina`, `Puxa`: `ranking_stream`, with the position of the
receiver and `Err(Lagged)` as tokio defines them (the receiver jumps to the oldest
message retained, the stream turns the error into an event as well). `Recebe`,
`Navega`, `Le`, `Exibe`, `FalhaBusca`: the page; nothing cancels an older fetch.
`Cai`, `Fecha`: `EventSource` reconnects by itself, without a fetch, and gives up
on an answer other than 200. `pedida` and `avisada` are history, no action's guard
reads them. `Falhas` says which failures a run includes.

### How `Classificacao` corresponds to the code

The tables change by whole requests or by what an interrupted one leaves
(`Palpita` may store a player alone, or a guess without a coupon). The queries are
operators: `Antes` is the ORDER BY all three share, `Numeracoes` every numbering
`ROW_NUMBER` may choose, `Pagina` LIMIT and OFFSET over the rows a search text
matches, `Podio` the loop of `paginas.rs:163-177`,
`PosicaoFinal` the `RANK()` of `admin.rs:431`, `TaxaDeAcerto` the rounded percentage.
`Conta` and `Responde` are the two queries of one ranking request, with any writes
between them. A search text stands for the set of names it occurs in (`Encontrados`;
the empty text for all of them), and each query matches anew: the upsert of a
submission (`Palpita`, which renames even when it stores no guess) may take a counted
player out of the second one. The text is also compared with phone and e-mail; the
phone is rewritten together with the name, the e-mail never. `palpites` maps `criado_em`, counted from 1, to the row stored then:
the table stores microseconds, and no two guesses are taken to share one (namesakes
apart, the name would then decide). `Total` is the SUM, a recursion over these
times. Names are numbers in their order, players a finite set (`JogadoresAssumption`).
The rows of the podium are any sorted arrangement of the first `NoPodio`, as `LIMIT`
gives them. A query reads one state of the tables, so `IInv` only has to know that
marked coupons exist, that no guess outlives its game (`ON DELETE CASCADE`) and
that whoever was counted is still a player, since nothing deletes one.

### How `Modais` corresponds to the code

One action is one task of the browser. `Mostra` is a change of `hidden` seen by the
observer, which sets the timer; `Sincroniza` is the timer with the three outcomes of
`sincronizar`; `travessias` are the traversals asked for (`history.back()` of the
script, Back and Forward of the person) and `Atravessa` makes the first one, with
`aoVoltar` as its `popstate`. `Envia`, `Registrado` and `Recusado` are the form.
How much holds depends on who is at the browser, so `pessoa` is a parameter of the
behaviour: a person *in a hurry* clicks and presses between any two tasks; a
*calm* one not before the page has done what it has already been asked to do (a
0 ms timer and a step of the history); a *patient* one moreover waits for the answer
of a submission and leaves Forward alone. For a hurried person the page may be left by
the script (a Back in the 0 ms before the push) and the coupon may be closed by a late
`popstate`; the properties say for whom they hold, and `VoltarFechaModal` keeps
for everyone that no flag outlives its modal.

### How `Painel` corresponds to the code

`fetch` holds the requests under way; the server answers (`Atende`), the answer
arrives (`ChegamJogos`, `ChegaLanding`, `Salvo`, `Divulgado`, ...) or does not
(`Falha`, before or after the server acted, or a refusal that the script tests for).
`Redesenha` is `popularSelectJogos` with the functions it calls; `landingJogoId` is
what the buttons act upon, `selecionado` what the select shows. Of a game only its
score is kept, of the landing only its game.

The two loads do not test `res.ok`, and the server refuses with a JSON body `{erro}`
(`errors.rs:60-67`). Such a body takes the place of the games (`ErroNosJogos`):
`jogosCache.forEach` throws (line 191), select and list keep the old rows, and every
later drawing from it throws as well, after the select itself has changed, until a
load succeeds. `jogosCache` of the module is the rows last loaded, which stay on
screen, and `erroNoCache` says that the script's variable holds a refusal instead;
`MostraJogo` is the drawing in both cases. A refused landing (`ErroNaLanding`) sets
`landingJogoId` to null and draws again. When the session ends during the load after
a result, `carregarJogos` returns as if it had loaded and the function goes on
(`SessaoExpira`); a 401 anywhere else counts as a failure. `CarregaTudo` is
`carregarTudo`, after a deletion, an edit or a new login. `placarDe`, `perdida` (the
games were asked for and have not been loaded since) and the screen a result was
sent from are history.

## 3. Runs

| Run | Question | Bounds, and why they suffice |
|---|---|---|
| `servidor` | Does the code agree with the rules, and what may a one-goal correction change? Do the pages that read the tables agree with each other? Limit, record size, boundary and refusals of the limiter. The invariant of the proofs about the pages is checked here too | One of four modes per behaviour. `regras`: up to 4 goals a side, so that every relation between the four numbers occurs (proved for all scores). `jogos` and `nomes`: three players, three guesses, two results; pages of two rows, a final classification of two and a podium of two. Three used coupons make three players eligible, so the podium's LIMIT cuts and a co-champion is missing from it. `jogos` has two games and namesakes only, `nomes` two names, a search for everybody or for one name, and one game (two worlds: names matter only among equals). `limitador`: five calls of one address with limit 2, one call of another; window 3, wait 1, six instants: windows overlap, expire and are purged by late clocks. Symmetry of players and games, no temporal property but action properties |
| `bolao_corrida` | Two submissions race with each other, with a result, with administration; two results compete for one lock. Each step implements a step of `Premiacao`, and everyone gets an answer | one game; five possible requests (same player twice, shared phone, bad e-mail, bad score). Either two of them with one result, valid or not; or the first of them with two results of different scores. Requests 2 and 3 share nothing, so each only meets request 1; an invalid request, which writes nothing, comes alone; of two equal results `a1` starts first |
| `bolao_correcao` | A result corrected by another, before, after or at once, with the landing saved in between | two results with two scores, two players with one exact guess each, one landing save |
| `bolao_admin` | Every administrator request around a result; the invariant of the proofs; which games are open | two games, of which the clock may pass the kick-off of one or both, one submission, one result with a valid or an invalid score, one landing save, one coupon marked |
| `ranking_ao_vivo` | Is a notice ever lost, is every one followed by a fetch, does the page show what it was told? What does Back do? Which game does the panel act upon? The invariants of both proofs are checked here too | one tab, one page per behaviour (the scripts of a page die with it). Ranking: two fetches, channel of one message, three writes: a receiver lags and answers overtake each other; all failures on. Home page: a history of five entries and two traversals waiting, enough for an entry left over below another and a Back that overtakes the script's. Panel: two games, two requests under way, two clicks that write or load |
| `telefone_repetido`, `dois_cupons`, `nao_apurado`, `ranking_desatualizado` | violated: section 5 | - |
| `resultado_trocado` | violated: section 5 | two games, three requests: the counterexample needs no failure |
| `placar_alheio` | violated: section 5 | two games, two scores (so that one is not the score of empty fields), two requests |
| `taxa_acima_de_cem` | violated: section 5 | one player, two games, two guesses |

`CHECK_DEADLOCK FALSE` throughout: the system may be idle, and in the finite
instances requests run out.

What the properties say (definitions and comments in the modules):

* `UnicoPalpite`, `CupomTemPalpite`, `RespostaVale` - submissions, in whatever
  order their statements meet. `RespostaVale` is the player's view: after
  "registrado" the guess and the coupon exist, with the discount of the answer,
  until a result or the deletion of the game.
* `PontuacaoDoPlacarVigente`, `AcertoSseDez`, `AcertoUniforme` - results and
  corrections: no point and no prize of an older score survives, none comes from a
  rolled-back transaction, all winners of a game hold the same discount.
* `TransacaoIsolada`, `StatusCoerente`, `SoAtivarReabre` - the game row.
* `LimitePorJanela`, `RegistrosLimitados`, `NegaComMotivo`, `Espera` - the limiter.
  Since the clock is read before the mutex is taken, a caller may be purged by
  one with a later reading; the window that holds exactly is `Janela` less the
  longest such wait (`Atraso`, zero in a sequential program).
* `AvisoNaoSePerde`, `ExibeOAvisado`, `AvisoViraPedido` - the live ranking.
* `ImplementaPremiacao` - the server as a whole, as its players see it.
* `AbertosCoerentes` - three queries with different conditions decide whether the
  pool is over, which games are listed and which one takes guesses; they agree.
* `PaginasParticionam`, `PaginaOferecidaExiste`, `DesempateEstavel` - the public ranking:
  each row found is on one page; pages offered by the count exist when they are read,
  for everybody and for a search whose players still match (a player renamed
  between the two queries may leave the last page of a search empty); and only
  players who never guessed can be told apart by nothing.
* `ClassificacoesConcordam`, `PodioConcorda` - the lists of
  winners agree although each has its own query; a co-champion is missing from the
  podium only when its three rows hold champions alone.
* `VoltarFechaModal`, `VoltarSaiDaPagina`, `PaginaNaoSaiSozinha`, `CupomFicaNaTela` - modals.
* `PlacarDaTela`, `DesvioPassa` - the panel: the score fields belong to the game on
  display, failed requests and refused landings included, except while the script
  holds a refusal in place of the games (`placar_alheio` shows why); buttons and
  display differ only while the games are loaded again or when the last load failed.
* `IInv`, `IInvPremios`, `IInvModais`, `IInvPainel` - the inductive invariants of
  section 4, types included. `IInvPainel` also says that a button is disabled exactly
  while a request of its own is under way, whatever fails.

Every property of a passing run has a mutant in `PROJECT.json`: a definition of
the model replaced by a plausibly wrong one (a dropped guard, a missing reset)
for which TLC finds the property violated under the same configuration.

**Fairness.** `TodaRequisicaoTermina` assumes (`Justica`, in `MCCorrida`) weak fairness of the steps of a
handler that has *started*: the tokio runtime polls a ready future, and
PostgreSQL grants a row lock when it is released. Clients, administrators and the
clock are under no obligation. `AvisoViraPedido` assumes that an open stream with
something to send is polled, that the browser handles the events of an open
connection, and that each fetch ends in an answer or an error. Strong fairness of
`Recebe` compensates only for the bound on simultaneous fetches, which the browser
does not have. `Modais` and `Painel` have safety properties only and assume no
fairness: an answer may never come and a person may go away.

## 4. Proofs

| Theorem | Module | Says |
|---|---|---|
| `PontosConformeRegra`, `PontosPossiveis`, `EmpateSoNoExato`, `LadosIguais` | `ClassificacaoProofs` | facts about `calcular_pontos` for all scores |
| `SempreConformeRegra`, `CorrecaoSoMudaExatos`, `InstanciaImplementa` | `ClassificacaoProofs` | the announced score, up to any number of goals; the instance is one of `Classificacao` |
| `InvarianteDasPaginas`, `HaNumeracao`, `DesempateSempreEstavel`, `PaginasSempreParticionam`, `PaginaOferecidaSempreExiste`, `ClassificacoesSempreConcordam`, `PodioSempreConcorda` | `ClassificacaoProofs` | `Spec => []IInv` and what the pages promise |
| `Invariante`, `Tipos`, `StatusSempreCoerente`, `UmPalpitePorJogador`, `CuponsTemPalpite`, `TransacoesIsoladas`, `PontosDoPlacarVigente` | `BolaoProofs` | `Spec => []IInv` and the properties it contains |
| `SoAtivarReabreJogos`, `InvariantePremios`, `DezPontosTemCupom`, `MesmoDesconto`, `RespostaCumprida` | `BolaoPremiosProofs` | the action property, `Spec => []IInvPremios`, and prizes |
| `AbertosSempreCoerentes` | `BolaoProofs` | the three conditions for an open game agree |
| `ImplementacaoDaPremiacao` | `PremiacaoProofs` | `Spec => ImplementaPremiacao`: `Bolao` implements `Premiacao` |
| `Invariante`, `TiposDoLimitador`, `EsperaLimitada`, `LimiteRespeitado`, `ListaCurta`, `RecusaJustificada` | `RateLimitProofs` | the limiter |
| `Invariante`, `TiposDoRanking`, `NenhumAvisoSePerde`, `MostraOAvisado` | `RankingAoVivoProofs` | the live ranking |
| `Invariante`, `TiposDosModais`, `VoltarSempreFechaModal`, `VoltarSempreSai`, `SoVoltarSai`, `CupomSempreFica` | `ModaisProofs` | the modals, for any history |
| `Invariante`, `PlacarSempreDaTela`, `DesvioSemprePassa` | `PainelProofs` | `SpecPainel => []IInvPainel`, types included: the panel, for any games and requests, refusals and lost answers among them |

They hold for every value of the constants that satisfies the named assumptions
(`PedidosAssumption`, `ConversoesAssumption`, `AdminAssumption`,
`LimitesAssumption`, `NuloAssumption`; `ConstantesAssumption` of the other
modules; `TamanhosAssumption`, `NomesAssumption`, `JogadoresAssumption`,
`LimiteAssumption`, `ZeroAssumption`): these say what type each constant has, that
`Nulo` is none of the values it stands in for, that a limit or a page holds at least
one row, and that empty score fields are read as a score; the runs evaluate them.

**Argument for `Bolao`.** No property of prizes or points is inductive, because
a result reads, waits and writes later. `IInv` adds what ties the three phases
together: `Validado` and `PalpiteDoEnvio` (what a submission at a given statement
has done), `JogoDoPalpite` (what the foreign keys give), `ApuracaoCoerente` and
`AcertosDoJogo` (what an open transaction carries), `TransacaoIsolada` (lock and
transactions match one to one, so the game and the listed guesses cannot vanish),
and `ListaCompleta`: once the guesses have been read, any guess the transaction
missed has zero points. From the last two, `Confirma` leaves every guess either
scored with the new score or at zero, which is `PontuacaoDoPlacarVigente`.
`IInvPremios` adds `PremiosDaApuracao`: inside the loop the coupons set back
include each one that still carries an older exact guess, and a guess already
reached is exact if and only if a coupon of its player is being promoted. With it
`Confirma` re-establishes `AcertoSseDez`; coupons that arrive late carry the
participation discount and disturb neither direction.
Each proof has one step per action; lemmas `Escreve...` first show which actions
touch which variable, so that a conjunct is only examined where it can break.

**Argument for `RateLimit`.** `Espera` ties clock, instants and records: a call
let through has lost its record only when it is older than `Janela`. Every call of
a window shorter than `Janela - Atraso` is therefore still recorded when the next
one is counted, and the count is exact.

**Argument for `RankingAoVivo`.** `PendenteOuPedida`: a notice not yet followed by
a fetch is still in the channel or on the connection; a lag skips messages but
always leaves one (`Cap > 0`) and produces an event. `RecenteTrazPedida`: the
last fetch reads the database after it was made.

**Argument for the refinement.** Two facts carry `Confirma`, the one step that is
a result of `Premiacao`: `OrigemDoResultado`, proved inductive on its own (what the
loop has put in its lists comes from the guesses it has read, scored with its own
score), and `IInvPremios` (no prize of an older score survives, no guess with
points is missed). The other actions are stutters, most of them because a lemma
says which tables they leave alone.

**Argument for `Modais`.** `MarcaCoerente`: without a timer the flag says whether a
modal is visible. `EmOrdem`: while the person is not in a hurry one traversal waits
at a time, and flag or traversal of the script stand for the current entry; since
the first entry is never ours, undoing stays on the page. `SoUmaEntrada`: for a
patient person only the current entry can be ours.

**Argument for `Painel`.** One save is under way at a time (`UmSalvar`), and the game
it saves is on display only while the buttons act upon it (`SalvaOMostrado`); so
when its answer puts that game back, the score fields already belong to it or it is
not on display. A refusal of the games is held only after the last load failed
(`erroNoCache => perdida`), and both end with the next load that succeeds, which
draws the whole card (`ChegamLinhas`): `TelaComErro` and `TelaMostrada` are the
drawing with and without a refusal.

Which requests are under way has its types (`Pedido`), and since a button is only
enabled again by the end of its own request there is one result at a time as well
(`UmResultado`).

**Argument for `Classificacao`.** Its invariant is small; the work is in the data.
The library's induction rules cannot be instantiated here, but its theorem that `<`
is well founded on the natural numbers can, and gives the least-number principle for
*sets* (`MenorNatural`): instead of an induction, take the least number for which a
statement fails. From it follow that finite sets of numbers have a maximum
(`MaximoDeFinito`), that a finite set can be numbered along a strict order
(`NumeracaoRespeita`), that the sum over the guesses and the loop of the podium are
functions and what they return (`SomaExiste`, `SomaProperties`, `PosicoesDoPodio`).
`Antes` is a strict order of the players (`AntesOrdena`) that tells any two apart of
whom one has guessed (`AntesDistingue`), hence everyone with points
(`OrdemDosPontuados`). So on them a numbering *is* the order: the rows before number
`m` are `m - 1` (`Prefixo`), which turns `RANK()` into a minimum of `ROW_NUMBER`, a
`LIMIT` into a bound on the number, and a page into an interval of places (`Fatia`).
Whoever stands before a row of the podium is on it (`TopoProperties`), so its first
row has the maximum of the eligible. For a page that was offered, the players
counted are still players (`UsuariosFicam`) and, under the condition of
`PaginaOferecidaExiste`, all found again, so the second query has at least as many
rows as the first counted. `HaNumeracao` shows that what is said of every
numbering is said of one.

**Only model-checked**: `TodaRequisicaoTermina` and `AvisoViraPedido`, since liveness
is beyond the prover. Every other property of the passing runs is proved.

## 5. Where the code departs from its documents

1. `telefone_repetido`: "E-mail e telefone só podem ser usados uma vez por jogo"
   (`palpites.rs:61`). Only the e-mail is backed by a key of the table; two
   concurrent submissions with one phone and two e-mails both pass the COUNT.
2. `dois_cupons`: the participation coupon is "PROMOVIDO ao de acerto" and replaced
   (`admin.rs:174`). A result that runs between the two INSERTs of a submission
   creates a second coupon, and the first then arrives.
3. `nao_apurado`: the result recalculates "a pontuação de todos" (`README.md:69`,
   `admin.rs:122`). A submission that passed its checks before the result and
   inserts after its SELECT stays unscored in a finished game.
4. `ranking_desatualizado`: the page "mantém atualizado via SSE"
   (`ranking-sse.js:3`). A write announced between the page's first query and its
   subscription is never shown until somebody writes again; nothing is fetched
   when the stream opens or reopens. With several fetches under way the order of
   their answers has the same effect, which is why `ExibeOAvisado` speaks only of
   a page that shows the answer of its last fetch.

5. `resultado_trocado`: the panel publishes the result "do jogo atual"
   (`admin.js:290`) and keeps "o jogo selecionado" at the answer of a save
   (`admin.js:368`). The answer puts the saved game back while the select still shows
   the one chosen meanwhile; a result published before the games are loaded again
   goes to the game that is not on display.

6. `taxa_acima_de_cem`: the hit rate is a percentage "entre os palpites de jogos já
   encerrados" (`admin.rs:357-358`). Its numerator counts the exact guesses of all
   games: a game activated again after its result stays in it, and the panel can
   show 200%. (The field comment, `admin.rs:319`, also describes another numerator.)
7. `placar_alheio`: the fields of the card reflect "o placar/status do jogo atual"
   (`admin.js:267`). After the server refused a load of the games with an error body
   (`admin.js:406`), choosing another game throws before they are written, and
   publishing sends the score of the first game for the second.

Smaller ones, seen while modelling and not in a run of their own:

* a podium of three rows can leave out a co-champion although "todos que empatam"
  are champions (`PodioConcorda`, `paginas.rs:159`);
* the last criterion of the "desempate estável" (`ranking.rs:48`) does not separate
  namesakes without guesses (`DesempateEstavel`);
* a marked coupon sends its notice so that the leads are redrawn in real time
  (`admin.rs:295`, `admin.js:711`), but the panel only loads the metrics again
  (`admin.js:716-718`);
* `README.md:95` gives the ranking 100 rows a page, the code 20 (`ranking.rs:54`);
* a refused load of the landing empties the discount fields (`admin.js:252-253`), and
  the next save stores discounts of 0.

## 6. Not modelled

* `meus_cupons`, the lists of games and coupons and the plain counts of the
  metrics: one SELECT each, with nothing to relate to.
* The characters of names, e-mails and phones, and the random coupon code: data
  the properties do not tell apart. A collision of codes or a text too wide for
  its column is a statement that fails (`Interrompe`).
* Login and tokens (stateless; cryptography is a library's), templates, layout,
  start-up, migrations as programs, deployment, and the scripts that only display
  (`countdown.js`, `jogos.js`, `meus-cupons.js`, `share.js`).
* In the panel: the two discount fields, the inline edit of a game, the registration
  form, the other cards, and the login screen.
* The kick-off check is made several statements before the INSERT, and nothing
  bounds the time between; no property is stated about it.

## 7. What is left

The core (tables, handlers, result, limiter, notices), the pages that read and the
two browser pages with state are modelled; every safety property that a run checks
is proved. What could still be added: the character
rules of `validacao.rs` as a module of pure functions (equal people get equal
keys), and the token of the panel together with its expiry in `auth.rs` and
`sair()` in `admin.js`.
