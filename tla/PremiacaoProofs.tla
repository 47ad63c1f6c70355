-------------------------- MODULE PremiacaoProofs --------------------------
(* The handlers of Bolao implement Premiacao: the initial tables map to its *)
(* initial state, and every step of every handler maps to a guess, a whole  *)
(* result, a cancelled game, or to nothing at all.                          *)
EXTENDS BolaoPremiosProofs

IInvAbstrata == IInvPremios /\ OrigemDoResultado

-----------------------------------------------------------------------------
(* What a result carries.                                                   *)

\* The discounts and the score of a handler are those it has read.
LEMMA LeituraDoResultado ==
  ASSUME IInv, [Next]_vars, NEW b \in Apuracoes
  PROVE  /\ ap'[b].cfg \in {ap[b].cfg, config, ConfigPadrao}
         /\ ap'[b].placar \in {ap[b].placar, Nulo} \cup Placares
<1>0. ap \in [Apuracoes -> Apuracao] /\ ap[b] \in Apuracao
  BY DEF IInv, TypeOK
<1>1. CASE RecebeResultado(b)
  BY <1>0, <1>1 DEF RecebeResultado, SemEfeito, Encerrada
<1>2. CASE AtualizaJogo(b)
  BY <1>0, <1>2 DEF AtualizaJogo, SemEfeito, Encerrada, Apuracao
<1>3. CASE BuscaPalpites(b)
  <2>1. ap'[b] = [ap[b] EXCEPT !.pc = "zeraCupons", !.lista = PalpitesDo(ap[b].jogo),
                               !.restam = PalpitesDo(ap[b].jogo)]
    BY <1>0, <1>3 DEF BuscaPalpites
  <2> QED
    BY <1>0, <2>1 DEF Apuracao
<1>4. CASE ZeraCupons(b)
  <2>1. ap'[b] = [ap[b] EXCEPT !.pc = "pontua", !.zerados = CuponsDoJogo(ap[b].jogo)]
    BY <1>0, <1>4 DEF ZeraCupons
  <2> QED
    BY <1>0, <2>1 DEF Apuracao
<1>5. ASSUME NEW r \in Envios, PontuaPalpite(b, r)
      PROVE  ap'[b].cfg = ap[b].cfg /\ ap'[b].placar = ap[b].placar
  <2>1. ap'[b] = [ap[b] EXCEPT !.restam = ap[b].restam \ {r},
                               !.acertos = ap[b].acertos \cup Premios(b, r)]
    BY <1>0, <1>5 DEF PontuaPalpite
  <2> QED
    BY <1>0, <2>1 DEF Apuracao
<1>6. CASE Confirma(b) \/ Desfaz(b)
  BY <1>0, <1>6 DEF Confirma, Desfaz, SemEfeito, Encerrada
<1>7. CASE ap'[b] = ap[b]
  BY <1>7
<1>8. ASSUME NEW a \in Apuracoes, a # b,
             \/ RecebeResultado(a) \/ AtualizaJogo(a) \/ BuscaPalpites(a) \/ ZeraCupons(a)
             \/ (\E r \in Envios : PontuaPalpite(a, r)) \/ Confirma(a) \/ Desfaz(a)
      PROVE  ap'[b] = ap[b]
  BY <1>8, EfeitoRecebe, EfeitoAtualiza, EfeitoBusca, EfeitoZera, EfeitoPontua, EfeitoFim
  DEF SoMuda
<1> QED
  BY <1>1, <1>2, <1>3, <1>4, <1>5, <1>6, <1>7, <1>8, PassosDaApuracao

LEMMA OrigemDoResultadoPasso ==
  ASSUME IInvAbstrata, [Next]_vars
  PROVE  OrigemDoResultado'
<1>0. IInv /\ OrigemDoResultado /\ config \in Oferecidas /\ ConfigPadrao \in Oferecidas
  BY DEF IInvAbstrata, IInvPremios, DescontoDaResposta, Oferecidas
<1>1. ASSUME NEW b \in Apuracoes
      PROVE  ap'[b].cfg \in Oferecidas /\ ap'[b].placar \in Placares \cup {Nulo}
  BY <1>0, LeituraDoResultado DEF OrigemDoResultado
<1>2. ASSUME NEW j \in Jogos, ~Existe(j)'
      PROVE  jogo'[j].placar = Nulo
  <2>1. CASE DeletarJogo(j)
    BY <1>0, <2>1 DEF DeletarJogo, IInv, TypeOK
  <2>2. CASE ~DeletarJogo(j)
    BY <1>0, <1>2, <2>2, PassoDoJogo DEF OrigemDoResultado
  <2> QED
    BY <2>1, <2>2
<1> QED
  BY <1>1, <1>2 DEF OrigemDoResultado, Oferecidas

LEMMA InitIInvAbstrata ==
  ASSUME Init
  PROVE  IInvAbstrata
<1>1. \A a \in Apuracoes : ap[a].cfg = ConfigPadrao /\ ap[a].placar = Nulo
  BY DEF Init, Encerrada, SemEfeito
<1>2. \A j \in Jogos : jogo[j].placar = Nulo
  BY DEF Init
<1> QED
  BY <1>1, <1>2, InitIInvPremios DEF IInvAbstrata, OrigemDoResultado, Oferecidas

-----------------------------------------------------------------------------
(* What a step changes of what players and organisers see.                  *)

LEMMA MesmosPontos ==
  ASSUME NEW p, NEW q
  PROVE  Abstrata!CalcularPontos(p, q) = CalcularPontos(p, q)
BY DEF Abstrata!CalcularPontos, CalcularPontos, Abstrata!Vencedor, Vencedor

\* The score of a game changes by its result and its deletion only.
LEMMA PlacarFica ==
  ASSUME IInvAbstrata, [Next]_vars, NEW j \in Jogos, ~DeletarJogo(j),
         \A a \in Apuracoes : Confirma(a) => ap[a].jogo # j
  PROVE  jogo'[j].placar = jogo[j].placar
<1>1. CASE CadastrarJogo(j)
  <2>1. ~Existe(j) /\ jogo \in [Jogos -> LinhaJogo]
    BY <1>1 DEF CadastrarJogo, Existe, IInvAbstrata, IInvPremios, IInv, TypeOK
  <2> QED
    BY <1>1, <2>1 DEF CadastrarJogo, IInvAbstrata, OrigemDoResultado
<1> QED
  BY <1>1, PassoDoJogo DEF IInvAbstrata, IInvPremios

\* A coupon gains or loses the discount of an exact guess by the result or the
\* deletion of its game only.
LEMMA PremioFica ==
  ASSUME IInvAbstrata, [Next]_vars, NEW c,
         \A a \in Apuracoes : Confirma(a) => ap[a].jogo # Pedido[c[2]].jogo,
         ~DeletarJogo(Pedido[c[2]].jogo)
  PROVE  /\ c \in Premiados' <=> c \in Premiados
         /\ c \in Premiados => tipo'[c] = tipo[c]
<1>0. /\ IInv /\ PremiosDaApuracao /\ CupomDoEnvio /\ JogoDoPalpite
      /\ JogoDoPalpite' /\ cupons \subseteq IdCupom /\ cupons' \subseteq IdCupom
  BY JogoDoPalpitePasso, TipoCupons DEF IInvAbstrata, IInvPremios, IInv, TypeOK
<1>1. ASSUME c \in cupons
      PROVE  /\ c \in cupons' /\ tipo'[c] = tipo[c]
             /\ Existe(Pedido[c[2]].jogo)' <=> Existe(Pedido[c[2]].jogo)
  <2>1. Pedido[c[2]].jogo \in Jogos /\ jogo[Pedido[c[2]].jogo].status # "nao_criado"
    BY <1>0, <1>1, PedidosAssumption DEF IdCupom, JogoDoPalpite
  <2> QED
    BY <1>0, <1>1, <2>1, CuponsCrescem, TipoDoCupomFica, PassoDoJogo
<1>2. ASSUME c \in cupons', tipo'[c].campo = "acerto"
      PROVE  c \in cupons
  BY <1>0, <1>2, AcertoAntigo
<1> QED
  BY <1>1, <1>2 DEF Premiados, Existe

\* A guess that no result of its game scores keeps its points.
LEMMA PontosFicam ==
  ASSUME IInvAbstrata, [Next]_vars, NEW r \in palpites,
         \A a \in Apuracoes : Confirma(a) => ap[a].jogo # Pedido[r].jogo
  PROVE  pontuacao'[r] = pontuacao[r]
<1>0. IInv /\ r \in Envios
  BY DEF IInvAbstrata, IInvPremios, IInv, TypeOK
<1>1. ASSUME NEW a \in Apuracoes, Confirma(a)
      PROVE  pontuacao'[r] = pontuacao[r]
  <2>1. ap[a].lista \subseteq PalpitesDo(ap[a].jogo)
    BY <1>0, <1>1 DEF Confirma, NaTransacao, IInv, TransacaoIsolada
  <2>2. r \notin ap[a].lista
    BY <1>1, <2>1 DEF PalpitesDo
  <2> QED
    BY <1>0, <1>1, <2>2 DEF Confirma, PontosApurados
<1> QED
  BY <1>1, EscrevePontuacao

-----------------------------------------------------------------------------
(* The steps that Premiacao sees.                                           *)

LEMMA DeletarCancela ==
  ASSUME IInvAbstrata, [Next]_vars, NEW j \in Jogos, DeletarJogo(j)
  PROVE  Abstrata!Cancela(j)
<1>0. jogo \in [Jogos -> LinhaJogo] /\ Existe(j) /\ ~Existe(j)'
  BY DEF IInvAbstrata, IInvPremios, IInv, TypeOK, DeletarJogo, Livre, Existe
<1>1. PlacarPublicado' = [PlacarPublicado EXCEPT ![j] = Nulo]
  BY <1>0 DEF DeletarJogo, PlacarPublicado
<1>2. Apostas' = Apostas \ Abstrata!ApostasEm(j)
  BY DEF DeletarJogo, Apostas, ApostaDe, Abstrata!ApostasEm, PalpitesDo, EmailDe
<1>3. Concedidos' = Concedidos \ Abstrata!PremiosEm(j)
  <2>1. \A a \in Apuracoes : ~Confirma(a)
    BY EfeitoFim DEF Confirma, DeletarJogo, apuracoes, IInvAbstrata, IInvPremios
  <2>2. ASSUME NEW c \in Premiados'
        PROVE  Pedido[c[2]].jogo # j
    BY <1>0, <2>2 DEF Premiados
  <2>3. ASSUME NEW c, Pedido[c[2]].jogo # j
        PROVE  (c \in Premiados' <=> c \in Premiados) /\ tipo'[c] = tipo[c]
    <3>1. ~DeletarJogo(Pedido[c[2]].jogo)
      BY <2>3, <1>0 DEF DeletarJogo, Existe, Livre
    <3> QED
      BY <2>1, <2>3, <3>1, PremioFica DEF DeletarJogo, tCupons
  <2> QED
    BY <2>2, <2>3 DEF Concedidos, PremioDe, EmailDe, Abstrata!PremiosEm
<1> QED
  BY <1>1, <1>2, <1>3 DEF Abstrata!Cancela

LEMMA PalpiteAposta ==
  ASSUME IInvAbstrata, [Next]_vars, NEW r \in Envios, InserePalpite(r), AceitaPalpite(r)
  PROVE  /\ Pedido[r].jogo \in Jogos /\ EmailDe(r) \in Emails
         /\ Pedido[r].placar \in PlacaresPossiveis
         /\ Abstrata!Aposta(EmailDe(r), Pedido[r].jogo, Pedido[r].placar)
<1>0. /\ IInv /\ palpites' = palpites \cup {r} /\ UNCHANGED <<jogo, pontuacao, cupons, tipo, ap>>
      /\ envio[r] = "inserePalpite"
  BY DEF InserePalpite, tCupons, apuracoes, IInvAbstrata, IInvPremios
<1>1. CamposValidos(r) /\ EmailDe(r) # Nulo /\ pontuacao[r] = 0
  BY <1>0 DEF IInv, Validado, PalpiteDoEnvio, AntesDoPalpite
<1>2. Pedido[r].jogo \in Jogos /\ EmailDe(r) \in Emails /\ Pedido[r].placar \in PlacaresPossiveis
  BY <1>1, CamposTipo DEF CamposValidos, PlacaresPossiveis
<1>3. \A b \in Abstrata!ApostasEm(Pedido[r].jogo) : b.jogador # EmailDe(r)
  BY DEF Abstrata!ApostasEm, Apostas, ApostaDe, AceitaPalpite, PalpitesDo
<1>4. Apostas' = Apostas \cup {[jogador |-> EmailDe(r), jogo |-> Pedido[r].jogo,
                                placar |-> Pedido[r].placar, pontos |-> 0]}
  BY <1>0, <1>1 DEF Apostas, ApostaDe, EmailDe
<1>5. UNCHANGED <<PlacarPublicado, Concedidos>>
  BY <1>0 DEF PlacarPublicado, Concedidos, Premiados, PremioDe, EmailDe, Existe
<1> QED
  BY <1>2, <1>3, <1>4, <1>5 DEF Abstrata!Aposta

\* The commit of a result is one whole result: the guesses it had read are
\* scored, their winners hold its discount, and nobody else holds one.
LEMMA ConfirmaApura ==
  ASSUME IInvAbstrata, [Next]_vars, NEW a \in Apuracoes, Confirma(a)
  PROVE  LET vistas == {ApostaDe(r) : r \in ap[a].lista} IN
         /\ ap[a].jogo \in Jogos /\ ap[a].placar \in PlacaresPossiveis /\ ap[a].cfg \in Oferecidas
         /\ vistas \subseteq Abstrata!ApostasEm(ap[a].jogo)
         /\ Abstrata!Apura(ap[a].jogo, ap[a].placar, ap[a].cfg.acerto, vistas)
<1> DEFINE j == ap[a].jogo
           p == ap[a].placar
           vistas == {ApostaDe(r) : r \in ap[a].lista}
<1>0. /\ IInv /\ PremiosDaApuracao /\ OrigemDoResultado
      /\ NaTransacao(a) /\ ap[a].pc = "pontua" /\ ap[a].restam = {}
      /\ UNCHANGED palpites
      /\ pontuacao' = [r \in Envios |-> PontosApurados(a, r)]
      /\ jogo' = [jogo EXCEPT ![j] = ComResultado(jogo[j], p)]
  BY DEF Confirma, NaTransacao, IInvAbstrata, IInvPremios
<1>t. jogo \in [Jogos -> LinhaJogo] /\ palpites \subseteq Envios
  BY <1>0 DEF IInv, TypeOK
<1>1. j \in Jogos /\ p \in Placar /\ Existe(j) /\ ap[a].lista \subseteq PalpitesDo(j)
  BY <1>0 DEF IInv, ApuracaoCoerente, TransacaoIsolada
<1>2. p \in PlacaresPossiveis /\ ap[a].cfg \in Oferecidas
  <2>1. p \in Placares
    BY <1>0, <1>1, NuloAssumption DEF OrigemDoResultado
  <2> QED
    BY <1>0, <1>1, <2>1 DEF PlacaresPossiveis, PlacarValido, Placar, OrigemDoResultado
<1>3. ap[a].lista \subseteq palpites /\ vistas \subseteq Abstrata!ApostasEm(j)
  BY <1>1 DEF PalpitesDo, Abstrata!ApostasEm, Apostas, ApostaDe
<1>4. {b \in Abstrata!ApostasEm(j) : b.pontos # 0} \subseteq vistas
  <2>1. \A r \in PalpitesDo(j) : pontuacao[r] # 0 => r \in ap[a].lista
    BY <1>0 DEF IInv, ListaCompleta
  <2> QED
    BY <2>1 DEF Abstrata!ApostasEm, Apostas, ApostaDe, PalpitesDo
<1>5. PlacarPublicado' = [PlacarPublicado EXCEPT ![j] = p]
  <2>1. ComResultado(jogo[j], p).placar = p
    BY <1>t, <1>1 DEF ComResultado, LinhaJogo
  <2> QED
    BY <1>0, <1>t, <1>1, <2>1 DEF PlacarPublicado
\* The rows of two guesses differ in player or game.
<1>6. \A q, r \in palpites : ApostaDe(q) = ApostaDe(r) => q = r
  BY <1>0 DEF IInv, UnicoPalpite, ApostaDe
<1>7. Apostas' = (Apostas \ vistas) \cup {Abstrata!ComPontos(b, p) : b \in vistas}
  <2>1. ASSUME NEW r \in ap[a].lista
        PROVE  ApostaDe(r)' = Abstrata!ComPontos(ApostaDe(r), p)
    <3>1. pontuacao'[r] = CalcularPontos(Pedido[r].placar, p)
      BY <1>0, <1>3, <1>t DEF PontosApurados
    <3> QED
      BY <3>1, MesmosPontos DEF ApostaDe, EmailDe, Abstrata!ComPontos
  <2>2. ASSUME NEW r \in palpites \ ap[a].lista
        PROVE  ApostaDe(r)' = ApostaDe(r) /\ ApostaDe(r) \notin vistas
    <3>1. pontuacao'[r] = pontuacao[r]
      BY <1>0, <1>t DEF PontosApurados
    <3> QED
      BY <1>3, <1>6, <3>1 DEF ApostaDe, EmailDe
  <2>3. Apostas' = {ApostaDe(r)' : r \in palpites}
    BY <1>0 DEF Apostas
  <2>4. Apostas \ vistas = {ApostaDe(r) : r \in palpites \ ap[a].lista}
    BY <1>3, <2>2 DEF Apostas
  <2>5. {Abstrata!ComPontos(b, p) : b \in vistas} = {Abstrata!ComPontos(ApostaDe(r), p) : r \in ap[a].lista}
    OBVIOUS
  <2> QED
    BY <1>3, <2>1, <2>2, <2>3, <2>4, <2>5
<1>8. Concedidos' = (Concedidos \ Abstrata!PremiosEm(j)) \cup
        {[jogador |-> b.jogador, jogo |-> j, valor |-> ap[a].cfg.acerto] :
           b \in {v \in vistas : v.placar = p}}
  <2>1. ASSUME NEW c, Pedido[c[2]].jogo # j
        PROVE  (c \in Premiados' <=> c \in Premiados) /\ (c \in Premiados => tipo'[c] = tipo[c])
    <3>1. ~DeletarJogo(Pedido[c[2]].jogo)
      BY EfeitoFim DEF Confirma, DeletarJogo, apuracoes, IInvAbstrata, IInvPremios
    <3>2. \A b \in Apuracoes : Confirma(b) => b = a
      BY <1>0, EfeitoFim DEF Confirma, SoMuda
    <3> QED
      BY <2>1, <3>1, <3>2, PremioFica
  <2>2. \A r \in ap[a].lista : ApostaDe(r).placar = p <=> Exato(a, r)
    BY DEF ApostaDe, Exato, CalcularPontos
  <2>3. ASSUME NEW c \in Premiados', Pedido[c[2]].jogo = j
        PROVE  \E r \in ap[a].lista : /\ Exato(a, r)
                 /\ PremioDe(c)' = [jogador |-> EmailDe(r), jogo |-> j, valor |-> ap[a].cfg.acerto]
    <3>1. c \in ap[a].acertos /\ tipo'[c] = Acerto(ap[a].cfg)
      BY <1>0, <2>3, CupomApurado DEF Premiados
    <3>2. PICK r \in ap[a].lista : Exato(a, r) /\ EmailDe(r) = EmailDe(c[2])
      BY <1>0, <3>1 DEF PremiosDaApuracao
    <3> QED
      BY <2>3, <3>1, <3>2 DEF PremioDe, Acerto, EmailDe
  <2>4. ASSUME NEW r \in ap[a].lista, Exato(a, r)
        PROVE  \E c \in Premiados' : /\ Pedido[c[2]].jogo = j
                 /\ PremioDe(c)' = [jogador |-> EmailDe(r), jogo |-> j, valor |-> ap[a].cfg.acerto]
    <3>1. PICK c \in ap[a].acertos : EmailDe(c[2]) = EmailDe(r)
      BY <1>0, <2>4 DEF PremiosDaApuracao
    <3>2. c \in cupons'
      BY <3>1 DEF Confirma
    <3>3. Pedido[c[2]].jogo = j /\ tipo'[c] = Acerto(ap[a].cfg) /\ tipo'[c].campo = "acerto"
      BY <1>0, <3>1, <3>2, CupomApurado
    <3>4. Existe(Pedido[c[2]].jogo)'
      <4>1. jogo'[j] = ComResultado(jogo[j], p)
        BY <1>0, <1>t, <1>1
      <4>2. jogo'[j].status = "encerrado"
        BY <1>t, <1>1, <4>1 DEF ComResultado, LinhaJogo
      <4> QED
        BY <3>3, <4>2 DEF Existe
    <3>5. c \in Premiados'
      BY <3>2, <3>3, <3>4 DEF Premiados
    <3>6. PremioDe(c)' = [jogador |-> EmailDe(r), jogo |-> j, valor |-> ap[a].cfg.acerto]
      BY <3>1, <3>3 DEF PremioDe, Acerto, EmailDe
    <3> QED
      BY <3>3, <3>5, <3>6
  <2> DEFINE novos == {[jogador |-> b.jogador, jogo |-> j, valor |-> ap[a].cfg.acerto] :
                         b \in {v \in vistas : v.placar = p}}
  <2>5. novos = {[jogador |-> EmailDe(r), jogo |-> j, valor |-> ap[a].cfg.acerto] :
                   r \in {q \in ap[a].lista : Exato(a, q)}}
    <3> DEFINE linha(b) == [jogador |-> b.jogador, jogo |-> j, valor |-> ap[a].cfg.acerto]
    <3>1. \A r : linha(ApostaDe(r)) = [jogador |-> EmailDe(r), jogo |-> j, valor |-> ap[a].cfg.acerto]
      BY DEF ApostaDe
    <3>2. {v \in vistas : v.placar = p} = {ApostaDe(r) : r \in {q \in ap[a].lista : Exato(a, q)}}
      BY <2>2
    <3>3. novos = {linha(b) : b \in {v \in vistas : v.placar = p}}
      OBVIOUS
    <3> HIDE DEF linha
    <3>4. novos = {linha(ApostaDe(r)) : r \in {q \in ap[a].lista : Exato(a, q)}}
      BY <3>2, <3>3
    <3> QED
      BY <3>1, <3>4
  <2>6. Concedidos' = {PremioDe(c)' : c \in Premiados'}
    BY DEF Concedidos
  <2>7. ASSUME NEW c \in Premiados', Pedido[c[2]].jogo # j
        PROVE  PremioDe(c)' \in Concedidos \ Abstrata!PremiosEm(j)
    BY <2>1, <2>7 DEF Concedidos, PremioDe, EmailDe, Abstrata!PremiosEm
  <2>8. ASSUME NEW x \in Concedidos \ Abstrata!PremiosEm(j)
        PROVE  x \in Concedidos'
    <3>1. PICK c \in Premiados : x = PremioDe(c)
      BY DEF Concedidos
    <3>2. Pedido[c[2]].jogo # j
      BY <2>8, <3>1 DEF PremioDe, Abstrata!PremiosEm
    <3>3. c \in Premiados' /\ PremioDe(c)' = x
      BY <2>1, <3>1, <3>2 DEF PremioDe, EmailDe
    <3> QED
      BY <2>6, <3>3
  <2> HIDE DEF novos
  <2>9. Concedidos' \subseteq (Concedidos \ Abstrata!PremiosEm(j)) \cup novos
    BY <2>3, <2>5, <2>6, <2>7
  <2>10. novos \subseteq Concedidos'
    BY <2>4, <2>5, <2>6
  <2>11. Concedidos' = (Concedidos \ Abstrata!PremiosEm(j)) \cup novos
    BY <2>8, <2>9, <2>10
  <2> QED
    BY <2>11 DEF novos
<1> QED
  BY <1>1, <1>2, <1>3, <1>4, <1>5, <1>7, <1>8 DEF Abstrata!Apura

-----------------------------------------------------------------------------
\* Every other step of every handler is invisible.
LEMMA PassoMudo ==
  ASSUME IInvAbstrata, [Next]_vars,
         \A a \in Apuracoes : ~Confirma(a),
         \A j \in Jogos : ~DeletarJogo(j),
         \A r \in Envios : ~(InserePalpite(r) /\ AceitaPalpite(r))
  PROVE  UNCHANGED <<PlacarPublicado, Apostas, Concedidos>>
<1>0. IInv
  BY DEF IInvAbstrata, IInvPremios
<1>1. UNCHANGED PlacarPublicado
  BY PlacarFica DEF PlacarPublicado
<1>2. UNCHANGED <<palpites, pontuacao>>
  BY EscrevePalpites, EscrevePontuacao DEF InserePalpite
<1>3. UNCHANGED Apostas
  BY <1>2 DEF Apostas, ApostaDe, EmailDe
<1>4. \A c \in cupons \cup cupons' : Pedido[c[2]].jogo \in Jogos
  BY <1>0, TipoCupons, PedidosAssumption DEF IInv, TypeOK, IdCupom
<1>5. Premiados' = Premiados /\ \A c \in Premiados : tipo'[c] = tipo[c]
  BY <1>4, PremioFica DEF Premiados
<1>6. UNCHANGED Concedidos
  BY <1>5 DEF Concedidos, PremioDe, EmailDe
<1> QED
  BY <1>1, <1>3, <1>6

LEMMA PassoAbstrato ==
  ASSUME IInvAbstrata, [Next]_vars
  PROVE  [Abstrata!Next]_(Abstrata!vars)
<1>1. ASSUME NEW a \in Apuracoes, Confirma(a)
      PROVE  Abstrata!Next
  <2>1. ap[a].cfg.acerto \in {c.acerto : c \in Oferecidas}
    BY <1>1, ConfirmaApura
  <2> QED
    BY <1>1, <2>1, ConfirmaApura DEF Abstrata!Next
<1>2. ASSUME NEW j \in Jogos, DeletarJogo(j)
      PROVE  Abstrata!Next
  BY <1>2, DeletarCancela DEF Abstrata!Next
<1>3. ASSUME NEW r \in Envios, InserePalpite(r), AceitaPalpite(r)
      PROVE  Abstrata!Next
  BY <1>3, PalpiteAposta DEF Abstrata!Next
<1> QED
  BY <1>1, <1>2, <1>3, PassoMudo DEF Abstrata!vars

\* The handlers of Bolao, with their separate statements, row locks, rollbacks
\* and interruptions, implement Premiacao for any number of players, games and
\* administrators (palpites.rs:89-112, admin.rs:124-232, admin.rs:264-279).
THEOREM ImplementacaoDaPremiacao == Spec => ImplementaPremiacao
<1>1. Init => IInvAbstrata
  BY InitIInvAbstrata
<1>2. IInvAbstrata /\ [Next]_vars => IInvAbstrata'
  BY PassoIInvPremios, OrigemDoResultadoPasso DEF IInvAbstrata
<1>3. Init => Abstrata!Init
  BY DEF Init, Abstrata!Init, PlacarPublicado, Apostas, Concedidos, Premiados
<1>4. IInvAbstrata /\ [Next]_vars => [Abstrata!Next]_(Abstrata!vars)
  BY PassoAbstrato
<1> QED
  BY <1>1, <1>2, <1>3, <1>4, PTL DEF Spec, ImplementaPremiacao, Abstrata!Spec

=============================================================================
