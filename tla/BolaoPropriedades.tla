------------------------- MODULE BolaoPropriedades -------------------------
(* What the handlers of Bolao keep true, and what the repository says of    *)
(* them that they do not.                                                   *)
EXTENDS Bolao

-----------------------------------------------------------------------------
(* What the server keeps true.                                              *)

\* Every table, handler and lock has its type; in particular the scores of the
\* stored guesses and of the games lie in the range both handlers check.
TypeOK ==
  /\ jogo \in [Jogos -> LinhaJogo]
  /\ usuario \in [Emails -> Telefones \cup {Nulo}]
  /\ palpites \subseteq {r \in Envios : CamposValidos(r) /\ EmailDe(r) # Nulo}
  /\ pontuacao \in [Envios -> {0, 5, 10}]
  /\ cupons \subseteq IdCupom
  /\ tipo \in [IdCupom -> Tipo]
  /\ utilizado \subseteq cupons
  /\ config \in Config
  /\ agora \in 0..Fim
  /\ envio \in [Envios -> {"novo"} \cup EmCurso \cup Respondido]
  /\ desconto \in [Envios -> Int]
  /\ ap \in [Apuracoes -> Apuracao]
  /\ trava \in [Jogos -> Apuracoes \cup {Nulo}]
  /\ landing \in [Salvamentos -> Salvamento]

\* The two columns that say whether a game takes guesses never disagree, and a
\* finished game has its score, whatever mix of results, activations and
\* landing saves wrote the row (admin.rs:58, 84, 101, 145, 498).
StatusCoerente ==
  \A j \in Jogos :
    /\ jogo[j].ativo <=> jogo[j].status = "ativo"
    /\ jogo[j].status = "encerrado" => jogo[j].placar # Nulo

\* "Open" is asked with three different conditions (bolao.rs:22, paginas.rs:197,
\* palpites.rs:134): once games are registered, the home shows the podium and
\* refuses guesses exactly when it has no game to list, at any time of the clock.
AbertosCoerentes ==
  (\E j \in Jogos : Existe(j)) => (EstaEncerrado <=> JogosAbertos = {})

\* One player has one guess per game, also when two requests of the player
\* pass the COUNT of palpites.rs:61 together.
UnicoPalpite ==
  \A q, r \in palpites :
    Pedido[q].jogo = Pedido[r].jogo /\ EmailDe(q) = EmailDe(r) => q = r

\* A player who was answered "registrado" has the guess and the coupon, with
\* the discount of the answer until a result changes it; only deleting the
\* game takes the guess away.
RespostaVale ==
  \A r \in Envios : envio[r] = "ok" =>
    LET j == Pedido[r].jogo IN
    /\ <<"envio", r>> \in cupons
    /\ Existe(j) => r \in palpites
    /\ Existe(j) /\ jogo[j].placar = Nulo =>
         /\ tipo[<<"envio", r>>].valor = desconto[r]
         /\ desconto[r] \in {c.participacao : c \in Configs \cup {ConfigPadrao}}

\* Every coupon of a game is backed by a guess of that player in that game,
\* although guess and coupon are inserted by separate statements.
CupomTemPalpite ==
  \A j \in Jogos : \A c \in CuponsDoJogo(j) : c[2] \in palpites

\* A guess with points has the points of the score the game shows now: a
\* correction leaves no points of the old score behind, and points never come
\* from a result that was rolled back.
PontuacaoDoPlacarVigente ==
  \A r \in palpites : pontuacao[r] # 0 =>
    LET placar == jogo[Pedido[r].jogo].placar IN
    placar # Nulo /\ pontuacao[r] = CalcularPontos(Pedido[r].placar, placar)

\* A guess has 10 points exactly when its player holds a coupon with the
\* discount of an exact guess for that game (admin.rs:165-217): through
\* corrections, and when the coupon of a slow submission arrives during or
\* after the result.
AcertoSseDez ==
  \A r \in palpites :
    pontuacao[r] = 10 <=>
      \E c \in CuponsDe(EmailDe(r), Pedido[r].jogo) : tipo[c].campo = "acerto"

\* All winners of one game hold the same discount, that of one reading of the
\* configuration, even if it was saved between two results of the game.
AcertoUniforme ==
  \A j \in Jogos : \A c, d \in CuponsDoJogo(j) :
    tipo[c].campo = "acerto" /\ tipo[d].campo = "acerto" => tipo[c] = tipo[d]

\* The lock and the open transactions match one to one, and what a transaction
\* read still exists when its loop writes it: nobody deletes the game or a
\* listed guess between the SELECT (admin.rs:160) and the commit.
TransacaoIsolada ==
  /\ \A j \in Jogos, a \in Apuracoes :
       trava[j] = a <=> NaTransacao(a) /\ ap[a].jogo = j
  /\ \A a \in Apuracoes : NaTransacao(a) =>
       /\ Existe(ap[a].jogo)
       /\ ap[a].lista \subseteq PalpitesDo(ap[a].jogo)

\* A finished game is reopened by PUT .../ativar and by nothing else: the
\* landing save selects a game "sem reabrir encerrados" (admin.rs:495).
SoAtivarReabre ==
  [][\A j \in Jogos : jogo[j].status = "encerrado" =>
       jogo'[j].status \in {"encerrado", "excluido"} \/ AtivarJogo(j)]_vars

\* Every request that the server starts gets its answer: no handler waits
\* forever for the row lock of a result.
TodaRequisicaoTermina ==
  /\ \A r \in Envios : envio[r] \in EmCurso ~> envio[r] \in Respondido
  /\ \A a \in Apuracoes : ap[a].pc \notin {"novo", "ok", "Validacao", "NaoEncontrado", "falha"}
                          ~> ap[a].pc \in {"ok", "NaoEncontrado", "falha"}

-----------------------------------------------------------------------------
(* The tables as players and organisers see them, in the terms of Premiacao. *)

ApostaDe(r) == [jogador |-> EmailDe(r), jogo |-> Pedido[r].jogo,
                placar |-> Pedido[r].placar, pontos |-> pontuacao[r]]

PremioDe(c) == [jogador |-> EmailDe(c[2]), jogo |-> Pedido[c[2]].jogo,
                valor |-> tipo[c].valor]

\* The coupons that carry the discount of an exact guess of a game.
Premiados == {c \in cupons : Existe(Pedido[c[2]].jogo) /\ tipo[c].campo = "acerto"}

PlacarPublicado == [j \in Jogos |-> jogo[j].placar]
Apostas == {ApostaDe(r) : r \in palpites}
Concedidos == {PremioDe(c) : c \in Premiados}

PlacaresPossiveis == {p \in Placares \cup {Pedido[r].placar : r \in Envios} : PlacarValido(p)}
Oferecidas == Configs \cup {ConfigPadrao}

Abstrata == INSTANCE Premiacao WITH
  Jogadores <- Emails,
  Placares <- PlacaresPossiveis,
  Descontos <- {c.acerto : c \in Oferecidas},
  placar <- PlacarPublicado,
  apostas <- Apostas,
  premios <- Concedidos

\* The handlers implement Premiacao: every statement of a submission or of an
\* administrator is invisible in it, a guess, a cancelled game, or a whole
\* result.  Nobody ever reads a score without its points and prizes, however
\* the statements interleave and wherever a handler stops.
ImplementaPremiacao == Abstrata!Spec

-----------------------------------------------------------------------------
(* The inductive invariant: what the properties above rest on.              *)

AntesDoPalpite == {"novo", "temAberto", "buscaJogo", "contaUsos", "upsert", "inserePalpite"}
DepoisDoPalpite == {"leConfig", "insereCupom", "responde", "ok"}

\* Past the validations a submission has valid fields.
Validado ==
  \A r \in Envios :
    envio[r] \in {"contaUsos", "upsert", "inserePalpite"} \cup DepoisDoPalpite
      => CamposValidos(r) /\ EmailDe(r) # Nulo

\* Before its INSERT a submission has no row and no points; after it the row
\* stays as long as the game.
PalpiteDoEnvio ==
  \A r \in Envios :
    /\ envio[r] \in AntesDoPalpite => r \notin palpites /\ pontuacao[r] = 0
    /\ envio[r] \in DepoisDoPalpite /\ Existe(Pedido[r].jogo) => r \in palpites

\* Guesses exist only in games that exist; a coupon, and a submission past its
\* INSERT, only for games that were created (and may be deleted by now).
JogoDoPalpite ==
  /\ \A r \in palpites : Existe(Pedido[r].jogo)
  /\ \A r \in Envios : envio[r] \in DepoisDoPalpite =>
       jogo[Pedido[r].jogo].status # "nao_criado"
  /\ \A c \in cupons : jogo[Pedido[c[2]].jogo].status # "nao_criado"

\* A result under way has a game and a valid score, and has read and buffered
\* nothing before its transaction.
ApuracaoCoerente ==
  \A a \in Apuracoes :
    /\ NaTransacao(a) \/ ap[a].pc = "atualizaJogo" =>
         ap[a].jogo \in Jogos /\ ap[a].placar \in Placar
    /\ ap[a].pc \in {"novo", "atualizaJogo"} =>
         ap[a].lista = {} /\ ap[a].restam = {} /\ ap[a].acertos = {}

\* Once the transaction has read the guesses, those it missed have no points.
ListaCompleta ==
  \A a \in Apuracoes : ap[a].pc \in {"zeraCupons", "pontua"} =>
    \A r \in PalpitesDo(ap[a].jogo) : pontuacao[r] # 0 => r \in ap[a].lista

\* The coupons a transaction promotes or creates belong to guesses of its game.
AcertosDoJogo ==
  \A a \in Apuracoes : NaTransacao(a) =>
    /\ ap[a].restam \subseteq ap[a].lista
    /\ \A c \in ap[a].acertos : c[2] \in PalpitesDo(ap[a].jogo)

\* The part of it that does not speak of prizes: rows, requests, transactions
\* and points.
IInv ==
  /\ TypeOK /\ Validado /\ ApuracaoCoerente /\ TransacaoIsolada
  /\ StatusCoerente /\ PalpiteDoEnvio /\ JogoDoPalpite /\ UnicoPalpite
  /\ AcertosDoJogo /\ CupomTemPalpite
  /\ ListaCompleta /\ PontuacaoDoPlacarVigente

\* The coupon of a submission exists from its INSERT on, and never before.
CupomDoEnvio ==
  \A r \in Envios :
    /\ <<"envio", r>> \in cupons => envio[r] \in {"responde", "ok", "falha"}
    /\ envio[r] \in {"responde", "ok"} => <<"envio", r>> \in cupons

\* The discount in an answer was offered by some configuration, and is that of
\* the coupon until the game has a score.
DescontoDaResposta ==
  /\ config \in Configs \cup {ConfigPadrao}
  /\ \A s \in Salvamentos : landing[s].pc = "salvar" => landing[s].cfg \in Configs
  /\ \A r \in Envios :
       /\ envio[r] \in {"insereCupom", "responde", "ok"} =>
            desconto[r] \in {c.participacao : c \in Configs \cup {ConfigPadrao}}
       /\ envio[r] \in {"responde", "ok"} =>
            LET j == Pedido[r].jogo IN
            Existe(j) /\ jogo[j].placar = Nulo => tipo[<<"envio", r>>].valor = desconto[r]

\* Before its loop a result has set back and promoted nothing.
SemPremios ==
  \A a \in Apuracoes : ap[a].pc # "pontua" =>
    ap[a].zerados = {} /\ ap[a].acertos = {} /\ ap[a].lista = ap[a].restam

Exato(a, r) == CalcularPontos(Pedido[r].placar, ap[a].placar) = 10

\* Inside the loop: the coupons set back are of this game and include every one
\* that still carries an older exact guess; a coupon is promoted if and only if
\* its player's guess is exact and was reached; only coupons of results are new.
PremiosDaApuracao ==
  \A a \in Apuracoes : ap[a].pc = "pontua" =>
    /\ \A c \in ap[a].zerados : Pedido[c[2]].jogo = ap[a].jogo
    /\ \A c \in CuponsDoJogo(ap[a].jogo) : tipo[c].campo = "acerto" => c \in ap[a].zerados
    /\ \A c \in ap[a].acertos :
         /\ c \in cupons \/ c[1] = "resultado"
         /\ \E r \in ap[a].lista : Exato(a, r) /\ EmailDe(r) = EmailDe(c[2])
    /\ \A r \in ap[a].lista \ ap[a].restam : Exato(a, r) =>
         \E c \in ap[a].acertos : EmailDe(c[2]) = EmailDe(r)

\* The whole inductive invariant: what a state must satisfy for every further
\* step of every handler to keep the properties above, prizes included.
IInvPremios ==
  /\ IInv /\ CupomDoEnvio /\ DescontoDaResposta /\ SemPremios /\ PremiosDaApuracao
  /\ AcertoSseDez /\ AcertoUniforme

\* What ImplementaPremiacao needs besides: a result carries a discount that was
\* offered and a score that was sent, and only a game that exists has a score.
OrigemDoResultado ==
  /\ \A a \in Apuracoes : ap[a].cfg \in Oferecidas /\ ap[a].placar \in Placares \cup {Nulo}
  /\ \A j \in Jogos : ~Existe(j) => jogo[j].placar = Nulo

-----------------------------------------------------------------------------
(* What the repository says and the server does not keep.                   *)

\* palpites.rs:61: "E-mail e telefone só podem ser usados uma vez por jogo."
TelefoneUnicoPorJogo ==
  \A q, r \in palpites :
    Pedido[q].jogo = Pedido[r].jogo /\ TelefoneDe(q) = TelefoneDe(r) => q = r

\* admin.rs:174: the coupon of an exact guess replaces the participation
\* coupon, so a player has one coupon per game.
UmCupomPorPalpite ==
  \A r \in palpites : Cardinality(CuponsDe(EmailDe(r), Pedido[r].jogo)) <= 1

\* README.md:69: the result recomputes "a pontuação de todos": once it is in,
\* every guess of the game has the points of the score.
TodosApurados ==
  \A r \in palpites :
    LET j == Pedido[r].jogo IN
    jogo[j].status = "encerrado" =>
      pontuacao[r] = CalcularPontos(Pedido[r].placar, jogo[j].placar)

=============================================================================
