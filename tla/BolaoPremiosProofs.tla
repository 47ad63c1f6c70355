------------------------- MODULE BolaoPremiosProofs -------------------------
(* Proofs about the prizes: the coupon of an exact guess, the discounts of  *)
(* the winners of a game, the answer a player was given, and who may reopen *)
(* a finished game.  They rest on IInv and on IInvPremios.                  *)
EXTENDS BolaoProofs

-----------------------------------------------------------------------------
(* A finished game.                                                         *)

LEMMA ReaberturaPasso ==
  ASSUME IInv, [Next]_vars, NEW j \in Jogos, jogo[j].status = "encerrado"
  PROVE  jogo'[j].status \in {"encerrado", "excluido"} \/ AtivarJogo(j)
<1>0. jogo \in [Jogos -> LinhaJogo]
  BY DEF IInv, TypeOK
<1>1. ASSUME NEW a \in Apuracoes, Confirma(a)
      PROVE  jogo'[j].status = "encerrado"
  <2>1. ComResultado(jogo[j], ap[a].placar).status = "encerrado"
    BY <1>0 DEF ComResultado, LinhaJogo
  <2>2. jogo' = [jogo EXCEPT ![ap[a].jogo] = ComResultado(jogo[ap[a].jogo], ap[a].placar)]
    BY <1>1 DEF Confirma
  <2> QED
    BY <1>0, <2>1, <2>2
<1>2. ASSUME NEW k \in Jogos, CadastrarJogo(k)
      PROVE  jogo'[j].status = "encerrado"
  BY <1>0, <1>2 DEF CadastrarJogo
<1>3. ASSUME NEW k \in Jogos, AtivarJogo(k)
      PROVE  jogo'[j].status = "encerrado" \/ AtivarJogo(j)
  BY <1>0, <1>3 DEF AtivarJogo
<1>4. ASSUME NEW k \in Jogos, DesativarJogo(k)
      PROVE  jogo'[j].status = "encerrado"
  BY <1>0, <1>4 DEF DesativarJogo, Desativado, LinhaJogo
<1>5. ASSUME NEW k \in Jogos, EditarJogo(k)
      PROVE  jogo'[j].status = "encerrado"
  BY <1>0, <1>5 DEF EditarJogo, LinhaJogo
<1>6. ASSUME NEW k \in Jogos, DeletarJogo(k)
      PROVE  jogo'[j].status \in {"encerrado", "excluido"}
  BY <1>0, <1>6 DEF DeletarJogo
<1>7. ASSUME NEW s \in Salvamentos, AtivaEscolhido(s)
      PROVE  jogo'[j].status = "encerrado"
  BY <1>0, <1>7 DEF AtivaEscolhido, AtivavelPelaLanding
<1> QED
  BY <1>1, <1>2, <1>3, <1>4, <1>5, <1>6, <1>7, EscreveJogo

\* Only PUT .../ativar reopens a finished game: neither a landing save
\* (admin.rs:495) nor a deactivation, an edit or another result does.
THEOREM SoAtivarReabreJogos == Spec => SoAtivarReabre
<1>1. IInv /\ [Next]_vars =>
        [\A j \in Jogos : jogo[j].status = "encerrado" =>
           jogo'[j].status \in {"encerrado", "excluido"} \/ AtivarJogo(j)]_vars
  BY ReaberturaPasso
<1> QED
  BY <1>1, Invariante, PTL DEF Spec, SoAtivarReabre

-----------------------------------------------------------------------------
(* The handler of a result, with the coupons it has set back.               *)

LEMMA EfeitoNosPremios ==
  ASSUME IInv, SemPremios, [Next]_vars, NEW b \in Apuracoes
  PROVE  \/ ap'[b] = ap[b]
         \/ /\ ap'[b].pc # "pontua"
            /\ ap'[b].zerados = {} /\ ap'[b].acertos = {} /\ ap'[b].lista = ap'[b].restam
         \/ /\ ZeraCupons(b) /\ NaTransacao(b)
            /\ ap'[b].jogo = ap[b].jogo /\ ap'[b].placar = ap[b].placar
            /\ ap'[b].lista = ap'[b].restam /\ ap'[b].acertos = {}
            /\ ap'[b].zerados = CuponsDoJogo(ap[b].jogo)
         \/ \E r \in ap[b].restam :
              /\ PontuaPalpite(b, r)
              /\ ap[b].pc = "pontua"
              /\ ap'[b].jogo = ap[b].jogo /\ ap'[b].placar = ap[b].placar
              /\ ap'[b].lista = ap[b].lista /\ ap'[b].restam = ap[b].restam \ {r}
              /\ ap'[b].zerados = ap[b].zerados
              /\ ap'[b].acertos = ap[b].acertos \cup Premios(b, r)
<1>0. /\ ap \in [Apuracoes -> Apuracao] /\ ap[b] \in Apuracao
      /\ config \in Config /\ ConfigPadrao \in Config
  BY AdminAssumption DEF IInv, TypeOK
<1>s. ap[b].pc # "pontua" => ap[b].zerados = {} /\ ap[b].acertos = {} /\ ap[b].lista = ap[b].restam
  BY DEF SemPremios
<1> DEFINE Vazia(x) == /\ x.pc # "pontua" /\ x.zerados = {} /\ x.acertos = {}
                       /\ x.lista = x.restam
<1>e. \A pc \in {"ok", "Validacao", "NaoEncontrado", "falha"} : Vazia(Encerrada(pc))
  BY DEF Encerrada, SemEfeito
<1>1. CASE RecebeResultado(b)
  <2>1. PICK j \in Jogos, p \in Placares :
          ap' = [ap EXCEPT ![b] = IF PlacarValido(p) THEN SemEfeito("atualizaJogo", j, p, config)
                                  ELSE Encerrada("Validacao")]
    BY <1>1 DEF RecebeResultado
  <2>2. Vazia(SemEfeito("atualizaJogo", j, p, config))
    BY DEF SemEfeito
  <2> HIDE DEF Vazia
  <2>3. Vazia(ap'[b])
    BY <1>0, <1>e, <2>1, <2>2
  <2> QED
    BY <2>3 DEF Vazia
<1>2. CASE AtualizaJogo(b)
  <2>1. Vazia([ap[b] EXCEPT !.pc = "buscaPalpites"])
    BY <1>0, <1>2, <1>s DEF AtualizaJogo, Apuracao
  <2>2. \/ ap' = [ap EXCEPT ![b] = [ap[b] EXCEPT !.pc = "buscaPalpites"]]
        \/ ap' = [ap EXCEPT ![b] = Encerrada("NaoEncontrado")]
    BY <1>0, <1>2 DEF AtualizaJogo
  <2> HIDE DEF Vazia
  <2>3. Vazia(ap'[b])
    BY <1>0, <1>e, <2>1, <2>2
  <2> QED
    BY <2>3 DEF Vazia
<1>3. CASE BuscaPalpites(b)
  <2> DEFINE nova == [ap[b] EXCEPT !.pc = "zeraCupons", !.lista = PalpitesDo(ap[b].jogo),
                                   !.restam = PalpitesDo(ap[b].jogo)]
  <2>1. Vazia(nova)
    BY <1>0, <1>3, <1>s DEF BuscaPalpites, Apuracao
  <2>2. ap' = [ap EXCEPT ![b] = nova]
    BY <1>3 DEF BuscaPalpites
  <2> HIDE DEF Vazia, nova
  <2>3. Vazia(ap'[b])
    BY <1>0, <2>1, <2>2
  <2> QED
    BY <2>3 DEF Vazia
<1>4. CASE ZeraCupons(b)
  <2> DEFINE nova == [ap[b] EXCEPT !.pc = "pontua", !.zerados = CuponsDoJogo(ap[b].jogo)]
  <2>1. /\ nova.jogo = ap[b].jogo /\ nova.placar = ap[b].placar
        /\ nova.lista = nova.restam /\ nova.acertos = {}
        /\ nova.zerados = CuponsDoJogo(ap[b].jogo)
    BY <1>0, <1>4, <1>s DEF ZeraCupons, Apuracao
  <2>2. ap' = [ap EXCEPT ![b] = nova] /\ NaTransacao(b)
    BY <1>4 DEF ZeraCupons, NaTransacao
  <2> HIDE DEF nova
  <2> QED
    BY <1>0, <1>4, <2>1, <2>2
<1>5. ASSUME NEW r \in Envios, PontuaPalpite(b, r)
      PROVE  /\ ap[b].pc = "pontua" /\ r \in ap[b].restam
             /\ ap'[b].jogo = ap[b].jogo /\ ap'[b].placar = ap[b].placar
             /\ ap'[b].lista = ap[b].lista /\ ap'[b].restam = ap[b].restam \ {r}
             /\ ap'[b].zerados = ap[b].zerados
             /\ ap'[b].acertos = ap[b].acertos \cup Premios(b, r)
  <2> DEFINE nova == [ap[b] EXCEPT !.restam = ap[b].restam \ {r},
                                   !.acertos = ap[b].acertos \cup Premios(b, r)]
  <2>1. /\ nova.jogo = ap[b].jogo /\ nova.placar = ap[b].placar
        /\ nova.lista = ap[b].lista /\ nova.restam = ap[b].restam \ {r}
        /\ nova.zerados = ap[b].zerados
        /\ nova.acertos = ap[b].acertos \cup Premios(b, r)
    BY <1>0 DEF Apuracao
  <2>2. ap' = [ap EXCEPT ![b] = nova] /\ ap[b].pc = "pontua" /\ r \in ap[b].restam
    BY <1>5 DEF PontuaPalpite
  <2> HIDE DEF nova
  <2> QED
    BY <1>0, <2>1, <2>2
<1>6. CASE Confirma(b) \/ Desfaz(b)
  <2>1. \/ ap' = [ap EXCEPT ![b] = Encerrada("ok")]
        \/ ap' = [ap EXCEPT ![b] = Encerrada("falha")]
    BY <1>6 DEF Confirma, Desfaz
  <2> HIDE DEF Vazia
  <2>2. Vazia(ap'[b])
    BY <1>0, <1>e, <2>1
  <2> QED
    BY <2>2 DEF Vazia
<1>7. CASE UNCHANGED <<ap, trava>>
  BY <1>7
<1>8. ASSUME NEW a \in Apuracoes \ {b},
             \/ RecebeResultado(a) \/ AtualizaJogo(a) \/ BuscaPalpites(a) \/ ZeraCupons(a)
             \/ (\E r \in Envios : PontuaPalpite(a, r)) \/ Confirma(a) \/ Desfaz(a)
      PROVE  ap'[b] = ap[b]
  BY <1>8, EfeitoRecebe, EfeitoAtualiza, EfeitoBusca, EfeitoZera, EfeitoPontua, EfeitoFim
  DEF SoMuda
<1> HIDE DEF Vazia
<1> QED
  BY <1>1, <1>2, <1>3, <1>4, <1>5, <1>6, <1>7, <1>8, PassosDaApuracao

LEMMA SemPremiosPasso ==
  ASSUME IInv, SemPremios, [Next]_vars
  PROVE  SemPremios'
<1> SUFFICES ASSUME NEW b \in Apuracoes, ap'[b].pc # "pontua"
             PROVE  ap'[b].zerados = {} /\ ap'[b].acertos = {} /\ ap'[b].lista = ap'[b].restam
  BY DEF SemPremios
<1>1. ZeraCupons(b) => ap'[b].pc = "pontua"
  BY EfeitoZera
<1>2. \A r \in Envios : PontuaPalpite(b, r) => ap'[b].pc = "pontua"
  BY EfeitoPontua
<1>3. ap[b].restam \subseteq Envios
  BY DEF IInv, TypeOK, Apuracao
<1> QED
  BY <1>1, <1>2, <1>3, EfeitoNosPremios DEF SemPremios

-----------------------------------------------------------------------------
(* The coupon of a submission and the discount of its answer.               *)

\* What the commit of a result leaves in a coupon: a promoted one has the
\* discount of an exact guess, every other one of the game the participation.
LEMMA CupomApurado ==
  ASSUME IInv, PremiosDaApuracao, NEW a \in Apuracoes, Confirma(a), NEW c \in cupons'
  PROVE  /\ c \in ap[a].acertos =>
              /\ Pedido[c[2]].jogo = ap[a].jogo
              /\ tipo'[c] = Acerto(ap[a].cfg) /\ tipo'[c].campo = "acerto"
              /\ c \in cupons \/ c[1] = "resultado"
         /\ c \notin ap[a].acertos =>
              /\ c \in cupons
              /\ Pedido[c[2]].jogo # ap[a].jogo => tipo'[c] = tipo[c]
              /\ Pedido[c[2]].jogo = ap[a].jogo => tipo'[c].campo = "participacao"
<1>0. /\ ap[a].pc = "pontua" /\ NaTransacao(a) /\ Existe(ap[a].jogo)
      /\ cupons' = cupons \cup ap[a].acertos
      /\ tipo' = [d \in IdCupom |-> TipoApurado(a, d)]
  BY DEF Confirma, NaTransacao, IInv, TransacaoIsolada
<1>1. c \in IdCupom /\ (c \in cupons => tipo[c].campo \in {"participacao", "acerto"})
  <2>1. cupons \subseteq IdCupom /\ tipo \in [IdCupom -> Tipo] /\ ap[a].acertos \subseteq IdCupom
    BY DEF IInv, TypeOK, Apuracao
  <2> QED
    BY <1>0, <2>1 DEF Tipo
<1>2. tipo'[c] = TipoApurado(a, c)
  BY <1>0, <1>1
<1>3. CASE c \in ap[a].acertos
  <2>1. Pedido[c[2]].jogo = ap[a].jogo
    BY <1>0, <1>3 DEF IInv, AcertosDoJogo, PalpitesDo
  <2> QED
    BY <1>0, <1>2, <1>3, <2>1 DEF TipoApurado, Acerto, PremiosDaApuracao
<1>4. CASE c \notin ap[a].acertos
  <2>1. c \in cupons
    BY <1>0, <1>4
  <2>2. CASE c \in ap[a].zerados
    BY <1>0, <1>2, <1>4, <2>1, <2>2 DEF TipoApurado, Participacao, PremiosDaApuracao
  <2>3. CASE c \notin ap[a].zerados
    <3>1. tipo'[c] = tipo[c]
      BY <1>2, <1>4, <2>3 DEF TipoApurado
    <3>2. Pedido[c[2]].jogo = ap[a].jogo => c \in CuponsDoJogo(ap[a].jogo)
      BY <1>0, <2>1 DEF CuponsDoJogo
    <3> QED
      BY <1>0, <1>1, <1>4, <2>1, <2>3, <3>1, <3>2 DEF PremiosDaApuracao
  <2> QED
    BY <2>2, <2>3
<1> QED
  BY <1>3, <1>4

LEMMA CuponsCrescem ==
  ASSUME [Next]_vars
  PROVE  cupons \subseteq cupons'
BY EscreveCupons DEF InsereCupom, Confirma

LEMMA CupomDoEnvioPasso ==
  ASSUME IInv, PremiosDaApuracao, CupomDoEnvio, [Next]_vars
  PROVE  CupomDoEnvio'
<1> SUFFICES ASSUME NEW r \in Envios
             PROVE  /\ <<"envio", r>> \in cupons' => envio'[r] \in {"responde", "ok", "falha"}
                    /\ envio'[r] \in {"responde", "ok"} => <<"envio", r>> \in cupons'
  BY DEF CupomDoEnvio
<1>0. /\ <<"envio", r>> \in cupons => envio[r] \in {"responde", "ok", "falha"}
      /\ envio[r] \in {"responde", "ok"} => <<"envio", r>> \in cupons
      /\ envio \in [Envios -> {"novo"} \cup EmCurso \cup Respondido]
  BY DEF CupomDoEnvio, IInv, TypeOK
\* Where the request goes from its last steps, and how it gets there.
<1>1. /\ envio[r] \in {"responde", "ok", "falha"} => envio'[r] \in {"responde", "ok", "falha"}
      /\ envio'[r] \in {"responde", "ok"} =>
           envio[r] \in {"responde", "ok"} \/ <<"envio", r>> \in cupons'
  <2>1. CASE envio'[r] = envio[r]
    BY <2>1
  <2>2. CASE PassoEnvio(r) \/ Interrompe(r)
    BY <1>0, <2>2 DEF PassoEnvio, Interrompe, Chega, TemAberto, RecusaPedido, BuscaJogo,
      ContaUsos, Upsert, InserePalpite, LeConfig, InsereCupom, Responde, Vai, EmCurso
  <2> QED
    BY <2>1, <2>2, PassosDoEnvio
<1>2. ASSUME <<"envio", r>> \in cupons', <<"envio", r>> \notin cupons
      PROVE  envio'[r] \in {"responde", "ok", "falha"}
  <2>1. ASSUME NEW a \in Apuracoes, Confirma(a)  PROVE FALSE
    BY <1>2, <2>1, CupomApurado
  <2>2. ASSUME NEW q \in Envios, InsereCupom(q)
        PROVE  envio'[r] \in {"responde", "ok", "falha"}
    BY <1>0, <1>2, <2>2 DEF InsereCupom, Vai
  <2> QED
    BY <1>2, <2>1, <2>2, EscreveCupons
<1> QED
  BY <1>0, <1>1, <1>2, CuponsCrescem


\* A coupon keeps its type when the step is not the result of its game.
LEMMA TipoDoCupomFica ==
  ASSUME IInv, PremiosDaApuracao, CupomDoEnvio, [Next]_vars, NEW c \in cupons,
         \A a \in Apuracoes : Confirma(a) => ap[a].jogo # Pedido[c[2]].jogo
  PROVE  tipo'[c] = tipo[c]
<1>0. c \in IdCupom /\ tipo \in [IdCupom -> Tipo]
  BY DEF IInv, TypeOK
<1>1. CASE UNCHANGED <<cupons, tipo>>
  BY <1>1
<1>2. ASSUME NEW q \in Envios, InsereCupom(q)
      PROVE  tipo'[c] = tipo[c]
  <2>1. c # <<"envio", q>>
    BY <1>2 DEF InsereCupom, CupomDoEnvio
  <2> QED
    BY <1>0, <1>2, <2>1 DEF InsereCupom
<1>3. ASSUME NEW a \in Apuracoes, Confirma(a)
      PROVE  tipo'[c] = tipo[c]
  <2>1. c \in cupons'
    BY CuponsCrescem
  <2> QED
    BY <1>3, <2>1, CupomApurado
<1> QED
  BY <1>1, <1>2, <1>3, EscreveCupons

LEMMA DescontoDaRespostaPasso ==
  ASSUME IInv, PremiosDaApuracao, CupomDoEnvio, DescontoDaResposta, [Next]_vars
  PROVE  DescontoDaResposta'
<1>0. /\ config \in Configs \cup {ConfigPadrao}
      /\ \A s \in Salvamentos : landing[s].pc = "salvar" => landing[s].cfg \in Configs
      /\ landing \in [Salvamentos -> Salvamento]
      /\ envio \in [Envios -> {"novo"} \cup EmCurso \cup Respondido]
      /\ desconto \in [Envios -> Int]
  BY DEF DescontoDaResposta, IInv, TypeOK
<1>1. config' \in Configs \cup {ConfigPadrao}
  BY <1>0, EscreveConfig DEF SalvaConfig
<1>2. \A s \in Salvamentos : landing'[s].pc = "salvar" => landing'[s].cfg \in Configs
  <2>1. ASSUME NEW s \in Salvamentos, AtivaEscolhido(s), NEW t \in Salvamentos,
               landing'[t].pc = "salvar"
        PROVE  landing'[t].cfg \in Configs
    BY <1>0, <2>1 DEF AtivaEscolhido
  <2>2. ASSUME NEW s \in Salvamentos, SalvaConfig(s) \/ InterrompeLanding(s),
               NEW t \in Salvamentos, landing'[t].pc = "salvar"
        PROVE  landing'[t].cfg \in Configs
    BY <1>0, <2>2 DEF SalvaConfig, InterrompeLanding, Salvamento
  <2> QED
    BY <1>0, <2>1, <2>2, EscreveLanding
<1>3. ASSUME NEW r \in Envios
      PROVE  /\ envio'[r] \in {"insereCupom", "responde", "ok"} =>
                  desconto'[r] \in {c.participacao : c \in Configs \cup {ConfigPadrao}}
             /\ envio[r] \in {"insereCupom", "responde", "ok"} => desconto'[r] = desconto[r]
  <2>1. ASSUME NEW q \in Envios, LeConfig(q)
        PROVE  /\ q = r => envio[r] = "leConfig" /\ desconto'[r] = config.participacao
               /\ q # r => desconto'[r] = desconto[r] /\ envio'[r] = envio[r]
    BY <1>0, <2>1 DEF LeConfig, DescontoDeParticipacao, Vai
  <2>2. envio[r] \in {"insereCupom", "responde", "ok"} => desconto'[r] = desconto[r]
    BY <2>1, EscreveDesconto
  <2>3. CASE envio[r] \in {"insereCupom", "responde", "ok"}
    BY <2>2, <2>3 DEF DescontoDaResposta
  <2>4. CASE envio[r] \notin {"insereCupom", "responde", "ok"} /\ envio'[r] \in {"insereCupom", "responde", "ok"}
    <3>1. envio'[r] = "insereCupom" /\ envio[r] = "leConfig"
      BY <2>4, OrigemDoEnvio
    <3>2. LeConfig(r)
      BY <1>0, <3>1, PassosDoEnvio DEF PassoEnvio, Interrompe, Chega, TemAberto, RecusaPedido,
        BuscaJogo, ContaUsos, Upsert, InserePalpite, InsereCupom, Responde, Vai
    <3> QED
      BY <1>0, <2>1, <2>4, <3>2
  <2> QED
    BY <2>2, <2>3, <2>4
<1>4. ASSUME NEW r \in Envios, envio'[r] \in {"responde", "ok"}, NEW j, j = Pedido[r].jogo,
             Existe(j)', jogo'[j].placar = Nulo
      PROVE  tipo'[<<"envio", r>>].valor = desconto'[r]
  <2>1. j \in Jogos /\ envio[r] \in {"insereCupom", "responde", "ok"}
    BY <1>4, PedidosAssumption, OrigemDoEnvio
  <2>2. jogo[j].status # "nao_criado"
    BY <1>4, <2>1 DEF IInv, JogoDoPalpite, DepoisDoPalpite
  <2>3. \A a \in Apuracoes : Confirma(a) => ap[a].jogo # j
    <3>1. ASSUME NEW a \in Apuracoes, Confirma(a), ap[a].jogo = j
          PROVE  FALSE
      <4>1. ap[a].placar \in Placar /\ jogo \in [Jogos -> LinhaJogo]
        BY <3>1 DEF Confirma, IInv, ApuracaoCoerente, NaTransacao, TypeOK
      <4>2. jogo'[j].placar = ap[a].placar
        BY <2>1, <3>1, <4>1 DEF Confirma, ComResultado, LinhaJogo
      <4> QED
        BY <1>4, <4>1, <4>2, NuloAssumption
    <3> QED
      BY <3>1
  <2>4. Existe(j) /\ jogo[j].placar = Nulo
    BY <1>4, <2>1, <2>2, <2>3, PassoDoJogo
  <2>5. CASE envio[r] = "insereCupom"
    <3>1. InsereCupom(r)
      BY <1>0, <1>4, <2>5, PassosDoEnvio DEF PassoEnvio, Interrompe, Chega, TemAberto, RecusaPedido,
        BuscaJogo, ContaUsos, Upsert, InserePalpite, LeConfig, Responde, Vai
    <3>2. <<"envio", r>> \in IdCupom /\ tipo \in [IdCupom -> Tipo]
      BY DEF IdCupom, IInv, TypeOK
    <3> QED
      BY <1>4, <2>4, <3>1, <3>2 DEF InsereCupom
  <2>6. CASE envio[r] \in {"responde", "ok"}
    <3>1. <<"envio", r>> \in cupons /\ tipo[<<"envio", r>>].valor = desconto[r]
      BY <1>4, <2>4, <2>6 DEF CupomDoEnvio, DescontoDaResposta
    <3>2. tipo'[<<"envio", r>>] = tipo[<<"envio", r>>]
      BY <1>4, <2>3, <3>1, TipoDoCupomFica
    <3> QED
      BY <1>3, <2>6, <3>1, <3>2
  <2> QED
    BY <2>1, <2>5, <2>6
<1> QED
  BY <1>1, <1>2, <1>3, <1>4 DEF DescontoDaResposta, Existe

-----------------------------------------------------------------------------
(* The prizes a result is about to write.                                   *)

\* The coupons of exact guesses of a game after a step that is not its result
\* are those before it.
LEMMA AcertoAntigo ==
  ASSUME IInv, PremiosDaApuracao, CupomDoEnvio, [Next]_vars, NEW c \in cupons',
         \A a \in Apuracoes : Confirma(a) => ap[a].jogo # Pedido[c[2]].jogo,
         tipo'[c].campo = "acerto"
  PROVE  c \in cupons /\ tipo'[c] = tipo[c]
<1>1. c \in IdCupom /\ tipo \in [IdCupom -> Tipo]
  BY TipoCupons DEF IInv, TypeOK
<1>2. c \in cupons
  <2>1. ASSUME NEW q \in Envios, InsereCupom(q), c \notin cupons  PROVE FALSE
    BY <1>1, <2>1 DEF InsereCupom
  <2>2. ASSUME NEW a \in Apuracoes, Confirma(a), c \notin cupons  PROVE FALSE
    BY <2>2, CupomApurado
  <2> QED
    BY <2>1, <2>2, EscreveCupons
<1> QED
  BY <1>2, TipoDoCupomFica

\* While a transaction is open no other step is the result of its game.
LEMMA SemOutroResultado ==
  ASSUME IInv, [Next]_vars, NEW b \in Apuracoes, NaTransacao(b), ~Confirma(b)
  PROVE  \A a \in Apuracoes : Confirma(a) => ap[a].jogo # ap[b].jogo
<1>1. \A a \in Apuracoes : NaTransacao(a) /\ ap[a].jogo = ap[b].jogo => a = b
  BY LinhasDaTransacao DEF IInv, TransacaoIsolada
<1>2. \A a \in Apuracoes : Confirma(a) => NaTransacao(a)
  BY DEF Confirma, NaTransacao
<1> QED
  BY <1>1, <1>2

LEMMA PremiosDaApuracaoPasso ==
  ASSUME IInv, SemPremios, PremiosDaApuracao, CupomDoEnvio, [Next]_vars
  PROVE  PremiosDaApuracao'
<1> SUFFICES ASSUME NEW b \in Apuracoes, ap'[b].pc = "pontua"
             PROVE  /\ \A c \in ap'[b].zerados : Pedido[c[2]].jogo = ap'[b].jogo
                    /\ \A c \in CuponsDoJogo(ap[b].jogo)' :
                         tipo'[c].campo = "acerto" => c \in ap'[b].zerados
                    /\ \A c \in ap'[b].acertos :
                         /\ c \in cupons' \/ c[1] = "resultado"
                         /\ \E r \in ap'[b].lista : Exato(b, r)' /\ EmailDe(r) = EmailDe(c[2])
                    /\ \A r \in ap'[b].lista \ ap'[b].restam : Exato(b, r)' =>
                         \E c \in ap'[b].acertos : EmailDe(c[2]) = EmailDe(r)
  BY DEF PremiosDaApuracao, CuponsDoJogo, Existe, EmailDe, Exato
<1>1. CASE ap'[b] = ap[b]
  <2>1. NaTransacao(b) /\ ~Confirma(b) /\ ap[b].pc = "pontua"
    BY <1>1, EfeitoFim DEF NaTransacao
  <2>2. ASSUME NEW c \in CuponsDoJogo(ap[b].jogo)', tipo'[c].campo = "acerto"
        PROVE  c \in ap[b].zerados
    <3>1. c \in cupons' /\ Pedido[c[2]].jogo = ap[b].jogo
      BY <1>1, <2>2 DEF CuponsDoJogo
    <3>2. c \in cupons /\ tipo[c].campo = "acerto"
      BY <2>1, <2>2, <3>1, AcertoAntigo, SemOutroResultado
    <3>3. Existe(ap[b].jogo)
      BY <2>1 DEF IInv, TransacaoIsolada
    <3> QED
      BY <2>1, <3>1, <3>2, <3>3 DEF PremiosDaApuracao, CuponsDoJogo
  <2>3. \A r : Exato(b, r)' <=> Exato(b, r)
    BY <1>1 DEF Exato
  <2> QED
    BY <1>1, <2>1, <2>2, <2>3, CuponsCrescem DEF PremiosDaApuracao
<1>2. CASE ZeraCupons(b) /\ ap'[b].jogo = ap[b].jogo /\ ap'[b].lista = ap'[b].restam
           /\ ap'[b].acertos = {} /\ ap'[b].zerados = CuponsDoJogo(ap[b].jogo)
  <2>1. UNCHANGED <<jogo, cupons>>
    BY <1>2 DEF ZeraCupons, banco, tCupons
  <2> QED
    BY <1>2, <2>1 DEF CuponsDoJogo, Existe
<1>3. ASSUME NEW r \in ap[b].restam, PontuaPalpite(b, r), ap[b].pc = "pontua",
             ap'[b].jogo = ap[b].jogo, ap'[b].placar = ap[b].placar,
             ap'[b].lista = ap[b].lista, ap'[b].restam = ap[b].restam \ {r},
             ap'[b].zerados = ap[b].zerados,
             ap'[b].acertos = ap[b].acertos \cup Premios(b, r)
      PROVE  /\ \A c \in ap'[b].zerados : Pedido[c[2]].jogo = ap'[b].jogo
             /\ \A c \in CuponsDoJogo(ap[b].jogo)' :
                  tipo'[c].campo = "acerto" => c \in ap'[b].zerados
             /\ \A c \in ap'[b].acertos :
                  /\ c \in cupons' \/ c[1] = "resultado"
                  /\ \E q \in ap'[b].lista : Exato(b, q)' /\ EmailDe(q) = EmailDe(c[2])
             /\ \A q \in ap'[b].lista \ ap'[b].restam : Exato(b, q)' =>
                  \E c \in ap'[b].acertos : EmailDe(c[2]) = EmailDe(q)
  <2>1. UNCHANGED <<jogo, cupons, tipo>>
    BY <1>3 DEF PontuaPalpite, banco, tCupons
  <2>2. \A q : Exato(b, q)' <=> Exato(b, q)
    BY <1>3 DEF Exato
  <2>3. CuponsDoJogo(ap[b].jogo)' = CuponsDoJogo(ap[b].jogo)
    BY <1>3, <2>1 DEF CuponsDoJogo, Existe
  <2>4. r \in ap[b].lista
    BY <1>3 DEF IInv, AcertosDoJogo, NaTransacao
  <2>5. /\ \A c \in Premios(b, r) : /\ c \in cupons \/ c[1] = "resultado"
                                    /\ Exato(b, r) /\ EmailDe(c[2]) = EmailDe(r)
        /\ Exato(b, r) => \E c \in Premios(b, r) : EmailDe(c[2]) = EmailDe(r)
    <3>1. Premios(b, r) = IF Exato(b, r) THEN CuponsPremiados(b, r) ELSE {}
      BY DEF Premios, Exato
    <3>2. CASE CuponsDe(EmailDe(r), ap[b].jogo) = {}
      <4>1. CuponsPremiados(b, r) = {<<"resultado", r>>}
        BY <3>2 DEF CuponsPremiados
      <4>2. /\ <<"resultado", r>>[1] = "resultado"
            /\ <<"resultado", r>>[2] = r
        OBVIOUS
      <4>3. ASSUME NEW c \in Premios(b, r)
            PROVE  c = <<"resultado", r>> /\ Exato(b, r)
        BY <3>1, <4>1
      <4>4. Exato(b, r) => <<"resultado", r>> \in Premios(b, r)
        BY <3>1, <4>1
      <4> QED
        BY <4>2, <4>3, <4>4
    <3>3. CASE CuponsDe(EmailDe(r), ap[b].jogo) # {}
      <4>1. CuponsPremiados(b, r) = CuponsDe(EmailDe(r), ap[b].jogo)
        BY <3>3 DEF CuponsPremiados
      <4> QED
        BY <3>1, <3>3, <4>1 DEF CuponsDe, CuponsDoJogo
    <3> QED
      BY <3>2, <3>3
  <2>6. \A c \in ap'[b].acertos :
          /\ c \in cupons' \/ c[1] = "resultado"
          /\ \E q \in ap'[b].lista : Exato(b, q)' /\ EmailDe(q) = EmailDe(c[2])
    BY <1>3, <2>1, <2>2, <2>4, <2>5 DEF PremiosDaApuracao
  <2>7. \A q \in ap'[b].lista \ ap'[b].restam : Exato(b, q)' =>
          \E c \in ap'[b].acertos : EmailDe(c[2]) = EmailDe(q)
    BY <1>3, <2>2, <2>5 DEF PremiosDaApuracao
  <2> QED
    BY <1>3, <2>1, <2>3, <2>6, <2>7 DEF PremiosDaApuracao
<1> QED
  BY <1>1, <1>2, <1>3, EfeitoNosPremios


-----------------------------------------------------------------------------
(* The prizes of a game.                                                    *)

LEMMA AcertoSseDezPasso ==
  ASSUME IInv, PremiosDaApuracao, CupomDoEnvio, AcertoSseDez, [Next]_vars
  PROVE  AcertoSseDez'
<1> SUFFICES ASSUME NEW r \in palpites', NEW j, j = Pedido[r].jogo
             PROVE  pontuacao'[r] = 10 <=>
                      \E c \in cupons' : /\ Pedido[c[2]].jogo = j /\ EmailDe(c[2]) = EmailDe(r)
                                         /\ tipo'[c].campo = "acerto"
  <2>1. \A r \in palpites' : Existe(Pedido[r].jogo)'
    BY JogoDoPalpitePasso DEF JogoDoPalpite
  <2> QED
    BY <2>1 DEF AcertoSseDez, CuponsDe, CuponsDoJogo, EmailDe, Existe
<1>0. /\ r \in Envios /\ j \in Jogos /\ Existe(j)'
      /\ palpites \subseteq Envios /\ pontuacao \in [Envios -> {0, 5, 10}]
  BY TipoPalpites, JogoDoPalpitePasso, PedidosAssumption DEF JogoDoPalpite, IInv, TypeOK
<1>1. ASSUME NEW a \in Apuracoes, Confirma(a), ap[a].jogo = j
      PROVE  pontuacao'[r] = 10 <=>
               \E c \in cupons' : /\ Pedido[c[2]].jogo = j /\ EmailDe(c[2]) = EmailDe(r)
                                  /\ tipo'[c].campo = "acerto"
  <2>0. /\ ap[a].pc = "pontua" /\ ap[a].restam = {} /\ NaTransacao(a)
        /\ r \in PalpitesDo(j) /\ pontuacao'[r] = PontosApurados(a, r)
        /\ cupons' = cupons \cup ap[a].acertos
    BY <1>0, <1>1 DEF Confirma, NaTransacao, PalpitesDo
  <2>1. pontuacao'[r] = 10 <=> r \in ap[a].lista /\ Exato(a, r)
    <3>1. r \notin ap[a].lista => pontuacao[r] = 0
      BY <1>1, <2>0 DEF IInv, ListaCompleta
    <3> QED
      BY <2>0, <3>1 DEF PontosApurados, Exato
  <2>2. ASSUME r \in ap[a].lista, Exato(a, r)
        PROVE  \E c \in cupons' : /\ Pedido[c[2]].jogo = j /\ EmailDe(c[2]) = EmailDe(r)
                                  /\ tipo'[c].campo = "acerto"
    <3>1. PICK c \in ap[a].acertos : EmailDe(c[2]) = EmailDe(r)
      BY <2>0, <2>2 DEF PremiosDaApuracao
    <3> QED
      BY <1>1, <2>0, <3>1, CupomApurado
  <2>3. ASSUME NEW c \in cupons', Pedido[c[2]].jogo = j, EmailDe(c[2]) = EmailDe(r),
               tipo'[c].campo = "acerto"
        PROVE  r \in ap[a].lista /\ Exato(a, r)
    <3>1. c \in ap[a].acertos
      BY <1>1, <2>3, CupomApurado
    <3>2. PICK q \in ap[a].lista : Exato(a, q) /\ EmailDe(q) = EmailDe(r)
      BY <2>0, <2>3, <3>1 DEF PremiosDaApuracao
    <3>3. q \in PalpitesDo(j)
      BY <1>1, <2>0, <3>2 DEF IInv, TransacaoIsolada
    <3>4. q = r
      BY <2>0, <3>2, <3>3 DEF IInv, UnicoPalpite, PalpitesDo
    <3> QED
      BY <3>2, <3>4
  <2> QED
    BY <2>1, <2>2, <2>3
<1>2. ASSUME \A a \in Apuracoes : Confirma(a) => ap[a].jogo # j
      PROVE  pontuacao'[r] = 10 <=>
               \E c \in cupons' : /\ Pedido[c[2]].jogo = j /\ EmailDe(c[2]) = EmailDe(r)
                                  /\ tipo'[c].campo = "acerto"
  <2>1. pontuacao'[r] = pontuacao[r]
    <3>1. ASSUME NEW a \in Apuracoes, Confirma(a)
          PROVE  pontuacao'[r] = pontuacao[r]
      <4>1. NaTransacao(a)
        BY <3>1 DEF Confirma, NaTransacao
      <4>2. ap[a].lista \subseteq PalpitesDo(ap[a].jogo)
        BY <4>1 DEF IInv, TransacaoIsolada
      <4>3. r \notin ap[a].lista
        BY <1>2, <3>1, <4>2 DEF PalpitesDo
      <4> QED
        BY <1>0, <3>1, <4>3 DEF Confirma, PontosApurados
    <3> QED
      BY <3>1, EscrevePontuacao
  <2>2. (\E c \in cupons' : /\ Pedido[c[2]].jogo = j /\ EmailDe(c[2]) = EmailDe(r)
                            /\ tipo'[c].campo = "acerto")
        <=> \E c \in cupons : /\ Pedido[c[2]].jogo = j /\ EmailDe(c[2]) = EmailDe(r)
                              /\ tipo[c].campo = "acerto"
    <3>1. \A c \in cupons : c \in cupons' /\ (Pedido[c[2]].jogo = j => tipo'[c] = tipo[c])
      BY <1>2, CuponsCrescem, TipoDoCupomFica
    <3>2. \A c \in cupons' : Pedido[c[2]].jogo = j /\ tipo'[c].campo = "acerto" =>
            c \in cupons /\ tipo'[c] = tipo[c]
      BY <1>2, AcertoAntigo
    <3> QED
      BY <3>1, <3>2
  <2>3. CASE r \in palpites
    <3>1. Existe(j)
      BY <2>3 DEF IInv, JogoDoPalpite
    <3> QED
      BY <2>1, <2>2, <2>3, <3>1 DEF AcertoSseDez, CuponsDe, CuponsDoJogo
  <2>4. CASE r \notin palpites
    <3>1. InserePalpite(r) /\ AceitaPalpite(r)
      BY <1>0, <2>4, EscrevePalpites DEF InserePalpite, DeletarJogo
    <3>2. pontuacao[r] = 0
      BY <1>0, <3>1 DEF InserePalpite, IInv, PalpiteDoEnvio, AntesDoPalpite
    <3>3. ASSUME NEW c \in cupons, Pedido[c[2]].jogo = j
          PROVE  EmailDe(c[2]) # EmailDe(r)
      <4>1. c \in CuponsDoJogo(j)
        BY <3>1, <3>3 DEF AceitaPalpite, CuponsDoJogo
      <4>2. c[2] \in PalpitesDo(j)
        BY <1>0, <3>3, <4>1 DEF IInv, CupomTemPalpite, PalpitesDo
      <4> QED
        BY <3>1, <4>2 DEF AceitaPalpite
    <3> QED
      BY <2>1, <2>2, <3>2, <3>3
  <2> QED
    BY <2>3, <2>4
<1> QED
  BY <1>1, <1>2

LEMMA AcertoUniformePasso ==
  ASSUME IInv, PremiosDaApuracao, CupomDoEnvio, AcertoUniforme, [Next]_vars
  PROVE  AcertoUniforme'
<1> SUFFICES ASSUME NEW j \in Jogos, Existe(j)',
                    NEW c \in cupons', Pedido[c[2]].jogo = j, tipo'[c].campo = "acerto",
                    NEW d \in cupons', Pedido[d[2]].jogo = j, tipo'[d].campo = "acerto"
             PROVE  tipo'[c] = tipo'[d]
  BY DEF AcertoUniforme, CuponsDoJogo, Existe
<1>1. ASSUME NEW a \in Apuracoes, Confirma(a), ap[a].jogo = j
      PROVE  tipo'[c] = tipo'[d]
  <2>1. c \in ap[a].acertos /\ d \in ap[a].acertos
    BY <1>1, CupomApurado
  <2> QED
    BY <1>1, <2>1, CupomApurado
<1>2. ASSUME \A a \in Apuracoes : Confirma(a) => ap[a].jogo # j
      PROVE  tipo'[c] = tipo'[d]
  <2>1. /\ c \in cupons /\ tipo'[c] = tipo[c]
        /\ d \in cupons /\ tipo'[d] = tipo[d]
    BY <1>2, AcertoAntigo
  <2>2. Existe(j)
    BY <2>1, PassoDoJogo DEF IInv, JogoDoPalpite
  <2> QED
    BY <2>1, <2>2 DEF AcertoUniforme, CuponsDoJogo
<1> QED
  BY <1>1, <1>2

LEMMA InitIInvPremios ==
  ASSUME Init
  PROVE  IInvPremios
<1>1. \A a \in Apuracoes : /\ ap[a].pc = "novo" /\ ap[a].zerados = {} /\ ap[a].acertos = {}
                           /\ ap[a].lista = {} /\ ap[a].restam = {}
  BY DEF Init, Encerrada, SemEfeito
<1>2. CupomDoEnvio /\ DescontoDaResposta /\ AcertoSseDez /\ AcertoUniforme
  BY DEF Init, CupomDoEnvio, DescontoDaResposta, AcertoSseDez, AcertoUniforme, CuponsDoJogo
<1>3. SemPremios /\ PremiosDaApuracao
  BY <1>1 DEF SemPremios, PremiosDaApuracao
<1> QED
  BY <1>2, <1>3, InitIInv DEF IInvPremios

LEMMA PassoIInvPremios ==
  ASSUME IInvPremios, [Next]_vars
  PROVE  IInvPremios'
BY PassoIInv, CupomDoEnvioPasso, DescontoDaRespostaPasso, SemPremiosPasso,
   PremiosDaApuracaoPasso, AcertoSseDezPasso, AcertoUniformePasso
DEF IInvPremios

\* The inductive invariant of the prizes holds in every reachable state.
THEOREM InvariantePremios == Spec => []IInvPremios
<1>1. Init => IInvPremios
  BY InitIInvPremios
<1>2. IInvPremios /\ [Next]_vars => IInvPremios'
  BY PassoIInvPremios
<1> QED
  BY <1>1, <1>2, PTL DEF Spec

\* Ten points and a coupon with the discount of an exact guess go together,
\* through corrections and coupons that arrive during or after the result
\* (admin.rs:165-217).
THEOREM DezPontosTemCupom == Spec => []AcertoSseDez
<1>1. IInvPremios => AcertoSseDez
  BY DEF IInvPremios
<1> QED
  BY <1>1, InvariantePremios, PTL

\* The winners of one game hold one discount, whenever the landing was saved.
THEOREM MesmoDesconto == Spec => []AcertoUniforme
<1>1. IInvPremios => AcertoUniforme
  BY DEF IInvPremios
<1> QED
  BY <1>1, InvariantePremios, PTL

\* The answer of POST /api/palpite keeps its promise: guess and coupon are
\* there, with the discount it told (palpites.rs:89-123).
THEOREM RespostaCumprida == Spec => []RespostaVale
<1>1. IInvPremios => RespostaVale
  <2> SUFFICES ASSUME IInvPremios, NEW r \in Envios, envio[r] = "ok", NEW j, j = Pedido[r].jogo
               PROVE  /\ <<"envio", r>> \in cupons
                      /\ Existe(j) => r \in palpites
                      /\ Existe(j) /\ jogo[j].placar = Nulo =>
                           /\ tipo[<<"envio", r>>].valor = desconto[r]
                           /\ desconto[r] \in {c.participacao : c \in Configs \cup {ConfigPadrao}}
    BY DEF RespostaVale
  <2>1. <<"envio", r>> \in cupons
    BY DEF IInvPremios, CupomDoEnvio
  <2>2. Existe(j) => r \in palpites
    BY DEF IInvPremios, IInv, PalpiteDoEnvio, DepoisDoPalpite
  <2>3. Existe(j) /\ jogo[j].placar = Nulo => tipo[<<"envio", r>>].valor = desconto[r]
    BY DEF IInvPremios, DescontoDaResposta
  <2>4. desconto[r] \in {c.participacao : c \in Configs \cup {ConfigPadrao}}
    BY DEF IInvPremios, DescontoDaResposta
  <2> QED
    BY <2>1, <2>2, <2>3, <2>4
<1> QED
  BY <1>1, InvariantePremios, PTL

=============================================================================
