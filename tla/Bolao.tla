------------------------------- MODULE Bolao -------------------------------
(* The prize pool: the PostgreSQL tables of the server and the handlers     *)
(* that write them.                                                         *)
(*                                                                          *)
(* One action is one SQL statement with the local code around it, since     *)
(* every `.await` on the pool lets other handlers run.  Statements outside  *)
(* a transaction commit on their own; the transaction of                    *)
(* `informar_resultado` runs at READ COMMITTED: it sees what others commit  *)
(* between its statements, its own writes become visible at the commit, and *)
(* from its first UPDATE to the end it holds the row lock of the game,      *)
(* which makes every other UPDATE or DELETE of that row wait.  That lock    *)
(* does not stop inserts that only reference the game (KEY SHARE).          *)
(*                                                                          *)
(* A handler may stop between any two statements: the client hangs up and   *)
(* axum drops its future, a statement fails, the process is restarted.      *)
EXTENDS Pontuacao, FiniteSets

CONSTANTS
  Envios,        \* POST /api/palpite requests, each one arrives at most once
  Pedido,        \* what each of them carries
  Emails,        \* normalised e-mail addresses: the key of `usuarios`
  Telefones,     \* phone numbers reduced to their digits
  Enderecos,     \* e-mail texts as typed
  Numeros,       \* phone texts as typed
  ValidarEmail,  \* text -> normalised e-mail, Nulo when validar_email refuses
  SomenteDigitos,\* text -> digits, Nulo when there are not 10 or 11 of them
  Apuracoes,     \* PUT /admin/jogos/:id/resultado requests
  Salvamentos,   \* PUT /admin/landing requests
  Jogos,         \* game ids: UUIDs, never used twice
  Placares,      \* scores an administrator may send, also invalid ones
  Datas,         \* kick-off times an administrator may give
  Configs,       \* discounts an administrator may save
  ConfigPadrao,  \* LandingConfig::default
  Fim,           \* bound: the last instant of the clock
  MaxEnvios,     \* bound: how many of Envios arrive in one behaviour
  MaxBaixas,     \* bound: how many coupons are marked as used
  Nulo

\* i32 without a range check (landing.rs:44-45).
Config == [participacao : Int, acerto : Int]

ASSUME PedidosAssumption ==
  Pedido \in [Envios -> [nomeValido : BOOLEAN, telefone : Numeros,
                         email : Enderecos, jogo : Jogos, placar : Int \X Int]]
ASSUME ConversoesAssumption ==
  /\ ValidarEmail \in [Enderecos -> Emails \cup {Nulo}]
  /\ SomenteDigitos \in [Numeros -> Telefones \cup {Nulo}]
ASSUME AdminAssumption ==
  /\ Placares \subseteq Int \X Int
  /\ Datas \subseteq Nat
  /\ Configs \subseteq Config
  /\ ConfigPadrao \in Config
ASSUME LimitesAssumption == Fim \in Nat /\ MaxEnvios \in Nat /\ MaxBaixas \in Nat
ASSUME NuloAssumption ==
  Nulo \notin Emails \cup Telefones \cup Apuracoes \cup Jogos \cup Placar

VARIABLES
  jogo,       \* table jogos
  usuario,    \* table usuarios: e-mail -> current phone, Nulo without a row
  palpites,   \* table palpites: a row is named by the request that inserted it
  pontuacao,  \* column palpites.pontuacao
  cupons,     \* table cupons: rows, named by who inserted them
  tipo,       \* column cupons.tipo
  utilizado,  \* column cupons.utilizado
  config,     \* config['landing_config']: the two discounts of the landing
  agora,      \* the clock of server and database
  envio,      \* per submission: the next statement, or the answer
  desconto,   \* per submission: the discount read before the coupon insert
  ap,         \* per result request: its handler and its transaction
  trava,      \* row locks on jogos held by result transactions
  landing     \* per landing save: its handler

tPalpites == <<palpites, pontuacao>>
tCupons == <<cupons, tipo, utilizado>>
banco == <<jogo, usuario, tPalpites, tCupons, config>>
envios == <<envio, desconto>>
apuracoes == <<ap, trava>>
foraJogo == <<usuario, tPalpites, tCupons, config, agora, envios, apuracoes, landing>>
vars == <<banco, agora, envios, apuracoes, landing>>

-----------------------------------------------------------------------------
(* The tables.                                                              *)

StatusDoJogo == {"nao_criado", "agendado", "ativo", "encerrado", "excluido"}

LinhaJogo == [status : StatusDoJogo, ativo : BOOLEAN, data : Nat,
              placar : Placar \cup {Nulo}]

\* A coupon is inserted by a submission or, when the player has none, by the
\* result that finds the exact guess of that submission.
IdCupom == {"envio", "resultado"} \X Envios

\* cupons.tipo is the text of a percentage; `campo` says which of the two
\* discounts of the landing it was formatted from.
Tipo == [campo : {"participacao", "acerto"}, valor : Int]
Participacao(cfg) == [campo |-> "participacao", valor |-> cfg.participacao]
Acerto(cfg) == [campo |-> "acerto", valor |-> cfg.acerto]

EmailDe(r) == ValidarEmail[Pedido[r].email]
TelefoneDe(r) == SomenteDigitos[Pedido[r].telefone]

Existe(j) == jogo[j].status \notin {"nao_criado", "excluido"}
PalpitesDo(j) == {r \in palpites : Pedido[r].jogo = j}

\* SELECT ... FROM cupons WHERE jogo_id = j.  Deleting a game sets jogo_id to
\* NULL, so the rows of a deleted game are found by no query.
CuponsDoJogo(j) == {c \in cupons : Pedido[c[2]].jogo = j /\ Existe(j)}
CuponsDe(e, j) == {c \in CuponsDoJogo(j) : EmailDe(c[2]) = e}

-----------------------------------------------------------------------------
(* POST /api/palpite.                                                       *)

EmCurso == {"temAberto", "buscaJogo", "contaUsos", "upsert", "inserePalpite",
            "leConfig", "insereCupom", "responde"}
Recusas == {"MuitasRequisicoes", "BolaoEncerrado", "Validacao",
            "EmailInvalido", "JogoNaoAtivo", "JogoEncerrado",
            "PalpiteDuplicado"}
Respondido == Recusas \cup {"ok", "falha"}

Vai(r, passo) == envio' = [envio EXCEPT ![r] = passo]

\* The request arrives; the limiter may turn it away (module RateLimit), else
\* the first query of esta_encerrado asks whether any game exists.
Chega(r) ==
  /\ envio[r] = "novo"
  /\ Cardinality({q \in Envios : envio[q] # "novo"}) < MaxEnvios
  /\ \/ Vai(r, "MuitasRequisicoes")
     \/ (\E j \in Jogos : Existe(j)) /\ Vai(r, "temAberto")
     \/ ~(\E j \in Jogos : Existe(j)) /\ Vai(r, "buscaJogo")
  /\ UNCHANGED <<banco, agora, desconto, apuracoes, landing>>

Aberto(j) == jogo[j].ativo /\ jogo[j].status # "encerrado" /\ jogo[j].data > agora

\* What esta_encerrado answers when nothing changes between its two queries.
EstaEncerrado ==
  /\ \E j \in Jogos : Existe(j)
  /\ ~\E j \in Jogos : Existe(j) /\ Aberto(j)

\* The games that the home page lists and GET /api/jogo-ativo chooses from.
JogosAbertos ==
  {j \in Jogos : Existe(j) /\ jogo[j].ativo /\ jogo[j].status = "ativo" /\ jogo[j].data > agora}

\* The second query of esta_encerrado, against the tables as they are by then.
TemAberto(r) ==
  /\ envio[r] = "temAberto"
  /\ Vai(r, IF \E j \in Jogos : Existe(j) /\ Aberto(j)
            THEN "buscaJogo" ELSE "BolaoEncerrado")
  /\ UNCHANGED <<banco, agora, desconto, apuracoes, landing>>

\* Mutant: only the upper end of the range is checked.
PlacarSemMinimo(p) == p[1] <= 20 /\ p[2] <= 20

\* (0..=20).contains of both sides, for a guess and for a result.
PlacarValido(p) == p[1] \in Gols /\ p[2] \in Gols

CamposValidos(r) ==
  /\ Pedido[r].nomeValido
  /\ TelefoneDe(r) # Nulo
  /\ PlacarValido(Pedido[r].placar)

RecusaPedido(r) ==
  /\ envio[r] = "buscaJogo"
  /\ \/ ~CamposValidos(r) /\ Vai(r, "Validacao")
     \/ CamposValidos(r) /\ EmailDe(r) = Nulo /\ Vai(r, "EmailInvalido")
  /\ UNCHANGED <<banco, agora, desconto, apuracoes, landing>>

\* SELECT of the game, then the comparison of its kick-off with the clock.
BuscaJogo(r) ==
  LET j == Pedido[r].jogo IN
  /\ envio[r] = "buscaJogo"
  /\ CamposValidos(r)
  /\ EmailDe(r) # Nulo
  /\ Vai(r, IF ~(Existe(j) /\ jogo[j].ativo /\ jogo[j].status = "ativo")
            THEN "JogoNaoAtivo"
            ELSE IF jogo[j].data <= agora THEN "JogoEncerrado" ELSE "contaUsos")
  /\ UNCHANGED <<banco, agora, desconto, apuracoes, landing>>

\* Palpites of the same game whose user has this e-mail, or has this phone now.
UsosDe(r) == {q \in PalpitesDo(Pedido[r].jogo) :
                \/ EmailDe(q) = EmailDe(r)
                \/ usuario[EmailDe(q)] = TelefoneDe(r)}

ContaUsos(r) ==
  /\ envio[r] = "contaUsos"
  /\ Vai(r, IF UsosDe(r) # {} THEN "PalpiteDuplicado" ELSE "upsert")
  /\ UNCHANGED <<banco, agora, desconto, apuracoes, landing>>

\* INSERT INTO usuarios ... ON CONFLICT (email) DO UPDATE.
Upsert(r) ==
  /\ envio[r] = "upsert"
  /\ usuario' = [usuario EXCEPT ![EmailDe(r)] = TelefoneDe(r)]
  /\ Vai(r, "inserePalpite")
  /\ UNCHANGED <<jogo, tPalpites, tCupons, config, agora,
                 desconto, apuracoes, landing>>

\* Mutant: the table without UNIQUE (usuario_id, jogo_id).
SemUnicidade(r) == Existe(Pedido[r].jogo)

\* Whether INSERT INTO palpites meets the foreign key to jogos and
\* UNIQUE (usuario_id, jogo_id).
AceitaPalpite(r) ==
  /\ Existe(Pedido[r].jogo)
  /\ \A q \in PalpitesDo(Pedido[r].jogo) : EmailDe(q) # EmailDe(r)

\* Mutant: an error of the INSERT is ignored.
IgnoraErroDoPalpite(r) ==
  /\ envio[r] = "inserePalpite"
  /\ palpites' = IF AceitaPalpite(r) THEN palpites \cup {r} ELSE palpites
  /\ Vai(r, "leConfig")
  /\ UNCHANGED <<jogo, usuario, pontuacao, tCupons, config,
                 agora, desconto, apuracoes, landing>>

InserePalpite(r) ==
  /\ envio[r] = "inserePalpite"
  /\ IF AceitaPalpite(r)
     THEN palpites' = palpites \cup {r} /\ Vai(r, "leConfig")
     ELSE Vai(r, "falha") /\ UNCHANGED palpites
  /\ UNCHANGED <<jogo, usuario, pontuacao, tCupons, config,
                 agora, desconto, apuracoes, landing>>

\* Mutant: the other discount of the configuration is read.
DescontoTrocado(cfg) == cfg.acerto

DescontoDeParticipacao(cfg) == cfg.participacao

LeConfig(r) ==
  /\ envio[r] = "leConfig"
  /\ desconto' = [desconto EXCEPT ![r] = DescontoDeParticipacao(config)]
  /\ Vai(r, "insereCupom")
  /\ UNCHANGED <<banco, agora, apuracoes, landing>>

\* INSERT INTO cupons: its jogo_id references jogos too.
InsereCupom(r) ==
  /\ envio[r] = "insereCupom"
  /\ IF Existe(Pedido[r].jogo)
     THEN /\ cupons' = cupons \cup {<<"envio", r>>}
          /\ tipo' = [tipo EXCEPT ![<<"envio", r>>] =
                        [campo |-> "participacao", valor |-> desconto[r]]]
          /\ Vai(r, "responde")
     ELSE Vai(r, "falha") /\ UNCHANGED <<cupons, tipo>>
  /\ UNCHANGED <<jogo, usuario, tPalpites, utilizado, config,
                 agora, desconto, apuracoes, landing>>

\* The notice to the SSE channel and the answer with code and discount.
Responde(r) ==
  /\ envio[r] = "responde"
  /\ Vai(r, "ok")
  /\ UNCHANGED <<banco, agora, desconto, apuracoes, landing>>

\* A query fails, the client hangs up or the server restarts: what was
\* written stays written.
Interrompe(r) ==
  /\ envio[r] \in EmCurso
  /\ Vai(r, "falha")
  /\ UNCHANGED <<banco, agora, desconto, apuracoes, landing>>

PassoEnvio(r) ==
  \/ Chega(r) \/ TemAberto(r) \/ RecusaPedido(r) \/ BuscaJogo(r)
  \/ ContaUsos(r) \/ Upsert(r) \/ InserePalpite(r) \/ LeConfig(r)
  \/ InsereCupom(r) \/ Responde(r)

-----------------------------------------------------------------------------
(* PUT /admin/jogos/:id/resultado.                                          *)

\* `lista`: the palpites the SELECT returned; `restam`: those the loop has not
\* reached; `zerados` and `acertos`: the coupons set back to the participation
\* discount and those promoted or created with the discount of an exact guess.
Apuracao == [pc : {"novo", "atualizaJogo", "buscaPalpites", "zeraCupons",
                   "pontua", "ok", "Validacao", "NaoEncontrado", "falha"},
             jogo : Jogos \cup {Nulo}, placar : Placar \cup {Nulo},
             cfg : Config, lista : SUBSET Envios, restam : SUBSET Envios,
             zerados : SUBSET IdCupom, acertos : SUBSET IdCupom]

SemEfeito(pc, j, placar, cfg) ==
  [pc |-> pc, jogo |-> j, placar |-> placar, cfg |-> cfg,
   lista |-> {}, restam |-> {}, zerados |-> {}, acertos |-> {}]

Encerrada(resposta) == SemEfeito(resposta, Nulo, Nulo, ConfigPadrao)

\* The transaction of `a` is open and has updated the game.
NaTransacao(a) == ap[a].pc \in {"buscaPalpites", "zeraCupons", "pontua"}

\* The range check, then the discounts are read outside the transaction.
RecebeResultado(a) ==
  /\ ap[a].pc = "novo"
  /\ \E j \in Jogos, p \in Placares :
       ap' = [ap EXCEPT ![a] =
                IF PlacarValido(p)
                THEN SemEfeito("atualizaJogo", j, p, config)
                ELSE Encerrada("Validacao")]
  /\ UNCHANGED <<banco, agora, envios, trava, landing>>

\* BEGIN and UPDATE jogos: waits for the row lock; no row, no result.
AtualizaJogo(a) ==
  LET j == ap[a].jogo IN
  /\ ap[a].pc = "atualizaJogo"
  /\ trava[j] = Nulo
  /\ IF Existe(j)
     THEN /\ ap' = [ap EXCEPT ![a].pc = "buscaPalpites"]
          /\ trava' = [trava EXCEPT ![j] = a]
     ELSE /\ ap' = [ap EXCEPT ![a] = Encerrada("NaoEncontrado")]
          /\ UNCHANGED trava
  /\ UNCHANGED <<banco, agora, envios, landing>>

BuscaPalpites(a) ==
  /\ ap[a].pc = "buscaPalpites"
  /\ ap' = [ap EXCEPT ![a] =
              [@ EXCEPT !.pc = "zeraCupons", !.lista = PalpitesDo(ap[a].jogo),
                        !.restam = PalpitesDo(ap[a].jogo)]]
  /\ UNCHANGED <<banco, agora, envios, trava, landing>>

\* UPDATE cupons SET tipo = the participation discount WHERE jogo_id = the game.
ZeraCupons(a) ==
  /\ ap[a].pc = "zeraCupons"
  /\ ap' = [ap EXCEPT ![a] =
              [@ EXCEPT !.pc = "pontua", !.zerados = CuponsDoJogo(ap[a].jogo)]]
  /\ UNCHANGED <<banco, agora, envios, trava, landing>>

\* Mutant: nothing is inserted when the UPDATE finds no coupon.
SoPromove(a, r) == CuponsDe(EmailDe(r), ap[a].jogo)

\* The coupons that carry the discount of an exact guess `r`: those the player
\* has for the game when the UPDATE runs, a new one if there is none.
CuponsPremiados(a, r) ==
  LET atuais == CuponsDe(EmailDe(r), ap[a].jogo) IN
  IF atuais = {} THEN {<<"resultado", r>>} ELSE atuais

Premios(a, r) == IF CalcularPontos(Pedido[r].placar, ap[a].placar) = 10
                 THEN CuponsPremiados(a, r) ELSE {}

\* One turn of the loop, in the order of a SELECT without ORDER BY.
PontuaPalpite(a, r) ==
  /\ ap[a].pc = "pontua"
  /\ r \in ap[a].restam
  /\ ap' = [ap EXCEPT ![a] =
              [@ EXCEPT !.restam = ap[a].restam \ {r},
                        !.acertos = ap[a].acertos \cup Premios(a, r)]]
  /\ UNCHANGED <<banco, agora, envios, trava, landing>>

\* Mutant: the coupons are not set back before the promotions.
SemZerar(a, c) == IF c \in ap[a].acertos THEN Acerto(ap[a].cfg) ELSE tipo[c]

\* tipo of coupon `c` after the transaction: the last of its UPDATEs wins.
TipoApurado(a, c) ==
  IF c \in ap[a].acertos THEN Acerto(ap[a].cfg)
  ELSE IF c \in ap[a].zerados THEN Participacao(ap[a].cfg) ELSE tipo[c]

\* Mutant: a palpite that already has points is not scored again.
SoPontuaZerados(a, r) ==
  IF r \in ap[a].lista /\ pontuacao[r] = 0
  THEN CalcularPontos(Pedido[r].placar, ap[a].placar) ELSE pontuacao[r]

\* Mutant: every guess the game has by now is scored, listed or not.
PontuaTodos(a, r) ==
  IF r \in PalpitesDo(ap[a].jogo) THEN CalcularPontos(Pedido[r].placar, ap[a].placar)
  ELSE pontuacao[r]

PontosApurados(a, r) ==
  IF r \in ap[a].lista THEN CalcularPontos(Pedido[r].placar, ap[a].placar)
  ELSE pontuacao[r]

\* Mutant: `ativo` is left as it was.
SemDesligar(linha, placar) == [linha EXCEPT !.status = "encerrado", !.placar = placar]

ComResultado(linha, placar) ==
  [linha EXCEPT !.status = "encerrado", !.ativo = FALSE, !.placar = placar]

\* Mutant: the lock outlives the transaction.
MantemTrava(a) == trava

SoltaTrava(a) == [j \in Jogos |-> IF trava[j] = a THEN Nulo ELSE trava[j]]

\* COMMIT, the notice to the SSE channel and the answer.
Confirma(a) ==
  LET j == ap[a].jogo IN
  /\ ap[a].pc = "pontua"
  /\ ap[a].restam = {}
  /\ jogo' = [jogo EXCEPT ![j] = ComResultado(@, ap[a].placar)]
  /\ pontuacao' = [r \in Envios |-> PontosApurados(a, r)]
  /\ cupons' = cupons \cup ap[a].acertos
  /\ tipo' = [c \in IdCupom |-> TipoApurado(a, c)]
  /\ trava' = SoltaTrava(a)
  /\ ap' = [ap EXCEPT ![a] = Encerrada("ok")]
  /\ UNCHANGED <<usuario, palpites, utilizado, config, agora, envios, landing>>

\* The handler stops before the commit: dropping the transaction rolls back.
Desfaz(a) ==
  /\ ap[a].pc = "atualizaJogo" \/ NaTransacao(a)
  /\ ap' = [ap EXCEPT ![a] = Encerrada("falha")]
  /\ trava' = SoltaTrava(a)
  /\ UNCHANGED <<banco, agora, envios, landing>>

PassoApuracao(a) ==
  \/ RecebeResultado(a) \/ AtualizaJogo(a) \/ BuscaPalpites(a)
  \/ ZeraCupons(a) \/ (\E r \in Envios : PontuaPalpite(a, r)) \/ Confirma(a)

-----------------------------------------------------------------------------
(* The other administrator requests: one statement each, except the landing *)
(* save.  An UPDATE or DELETE of a game waits while its row is locked.      *)

\* Mutant: the transaction holds no lock on the game.
SemEsperar(j) == Existe(j)

Livre(j) == Existe(j) /\ trava[j] = Nulo

\* POST /admin/jogos.
CadastrarJogo(j) ==
  /\ jogo[j].status = "nao_criado"
  /\ \E ativo \in BOOLEAN, data \in Datas :
       jogo' = [jogo EXCEPT ![j] =
                  [status |-> IF ativo THEN "ativo" ELSE "agendado",
                   ativo |-> ativo, data |-> data, placar |-> Nulo]]
  /\ UNCHANGED foraJogo

\* Mutant: only the column `ativo` is written.
AtivaSemStatus(linha) == [linha EXCEPT !.ativo = TRUE]

Ativado(linha) == [linha EXCEPT !.ativo = TRUE, !.status = "ativo"]

Desativado(linha) ==
  [linha EXCEPT !.ativo = FALSE,
                !.status = IF @ = "encerrado" THEN @ ELSE "agendado"]

\* PUT /admin/jogos/:id/ativar.
AtivarJogo(j) ==
  /\ Livre(j)
  /\ jogo' = [jogo EXCEPT ![j] = Ativado(@)]
  /\ UNCHANGED foraJogo

\* PUT /admin/jogos/:id/desativar.
DesativarJogo(j) ==
  /\ Livre(j)
  /\ jogo' = [jogo EXCEPT ![j] = Desativado(@)]
  /\ UNCHANGED foraJogo

\* PUT /admin/jogos/:id: of what it edits only the kick-off matters here.
EditarJogo(j) ==
  /\ Livre(j)
  /\ \E data \in Datas : jogo' = [jogo EXCEPT ![j].data = data]
  /\ UNCHANGED foraJogo

\* DELETE /admin/jogos/:id: palpites go with the game (ON DELETE CASCADE), the
\* coupons stay without a game (ON DELETE SET NULL).
DeletarJogo(j) ==
  /\ Livre(j)
  /\ jogo' = [jogo EXCEPT ![j] = [status |-> "excluido", ativo |-> FALSE,
                                  data |-> 0, placar |-> Nulo]]
  /\ palpites' = palpites \ PalpitesDo(j)
  /\ UNCHANGED <<usuario, pontuacao, tCupons, config, agora,
                 envios, apuracoes, landing>>

\* PUT /admin/cupons/:id/utilizar: a second time succeeds too and is a stutter.
MarcarCupom(c) ==
  /\ c \in cupons
  /\ Cardinality(utilizado) < MaxBaixas
  /\ utilizado' = utilizado \cup {c}
  /\ UNCHANGED <<jogo, usuario, tPalpites, cupons, tipo, config,
                 agora, envios, apuracoes, landing>>

Salvamento == [pc : {"novo", "salvar", "ok", "falha"}, cfg : Config]

\* Mutant: the UPDATE without `status <> 'encerrado'`.
AtivavelSempre(j) == Existe(j)

AtivavelPelaLanding(j) == Existe(j) /\ jogo[j].status # "encerrado"

\* PUT /admin/landing, first statement: activates the chosen game unless its
\* result is in.  `j` is Nulo when the request names no game.
AtivaEscolhido(s) ==
  /\ landing[s].pc = "novo"
  /\ \E j \in Jogos \cup {Nulo}, cfg \in Configs :
       /\ j # Nulo /\ AtivavelPelaLanding(j) => trava[j] = Nulo
       /\ jogo' = IF j # Nulo /\ AtivavelPelaLanding(j)
                  THEN [jogo EXCEPT ![j] = Ativado(@)]
                  ELSE jogo
       /\ landing' = [landing EXCEPT ![s] = [pc |-> "salvar", cfg |-> cfg]]
  /\ UNCHANGED <<usuario, tPalpites, tCupons, config, agora, envios, apuracoes>>

\* Second statement: the whole configuration is overwritten.
SalvaConfig(s) ==
  /\ landing[s].pc = "salvar"
  /\ config' = landing[s].cfg
  /\ landing' = [landing EXCEPT ![s].pc = "ok"]
  /\ UNCHANGED <<jogo, usuario, tPalpites, tCupons, agora, envios, apuracoes>>

InterrompeLanding(s) ==
  /\ landing[s].pc = "salvar"
  /\ landing' = [landing EXCEPT ![s].pc = "falha"]
  /\ UNCHANGED <<banco, agora, envios, apuracoes>>

Tick ==
  /\ agora < Fim
  /\ agora' = agora + 1
  /\ UNCHANGED <<banco, envios, apuracoes, landing>>

-----------------------------------------------------------------------------
Init ==
  /\ jogo = [j \in Jogos |-> [status |-> "nao_criado", ativo |-> FALSE,
                              data |-> 0, placar |-> Nulo]]
  /\ usuario = [e \in Emails |-> Nulo]
  /\ palpites = {}
  /\ pontuacao = [r \in Envios |-> 0]
  /\ cupons = {}
  /\ tipo = [c \in IdCupom |-> Participacao(ConfigPadrao)]
  /\ utilizado = {}
  /\ config = ConfigPadrao
  /\ agora = 0
  /\ envio = [r \in Envios |-> "novo"]
  /\ desconto = [r \in Envios |-> 0]
  /\ ap = [a \in Apuracoes |-> Encerrada("novo")]
  /\ trava = [j \in Jogos |-> Nulo]
  /\ landing = [s \in Salvamentos |-> [pc |-> "novo", cfg |-> ConfigPadrao]]

Next ==
  \/ \E r \in Envios : PassoEnvio(r) \/ Interrompe(r)
  \/ \E a \in Apuracoes : PassoApuracao(a) \/ Desfaz(a)
  \/ \E j \in Jogos : \/ CadastrarJogo(j) \/ AtivarJogo(j) \/ DesativarJogo(j)
                      \/ EditarJogo(j) \/ DeletarJogo(j)
  \/ \E c \in IdCupom : MarcarCupom(c)
  \/ \E s \in Salvamentos : AtivaEscolhido(s) \/ SalvaConfig(s) \/ InterrompeLanding(s)
  \/ Tick

Spec == Init /\ [][Next]_vars

\* A handler that has started is driven to its end by the runtime; nothing
\* obliges a client or an administrator to send a request.
Justica ==
  /\ \A r \in Envios : WF_vars(envio[r] # "novo" /\ PassoEnvio(r))
  /\ \A a \in Apuracoes : WF_vars(ap[a].pc # "novo" /\ PassoApuracao(a))
  /\ \A s \in Salvamentos : WF_vars(SalvaConfig(s))

=============================================================================
