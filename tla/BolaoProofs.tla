---------------------------- MODULE BolaoProofs ----------------------------
(* Proofs, for every value of the constants, of the properties of           *)
(* BolaoPropriedades that IInv carries.                                     *)
EXTENDS BolaoPropriedades, TLAPS

-----------------------------------------------------------------------------
(* Who writes what: each table, and the state of each kind of handler, is   *)
(* written by few actions.  The proofs below only look at those.            *)

USE DEF Next, PassoEnvio, PassoApuracao, foraJogo, vars, banco, tPalpites, tCupons, envios, apuracoes,
   Chega, TemAberto, RecusaPedido, BuscaJogo, ContaUsos, Upsert, InserePalpite,
   LeConfig, InsereCupom, Responde, Interrompe, RecebeResultado, AtualizaJogo,
   BuscaPalpites, ZeraCupons, PontuaPalpite, Confirma, Desfaz, CadastrarJogo,
   AtivarJogo, DesativarJogo, EditarJogo, DeletarJogo, MarcarCupom,
   AtivaEscolhido, SalvaConfig, InterrompeLanding, Tick, Vai

LEMMA EscreveJogo ==
  ASSUME [Next]_vars
  PROVE  \/ UNCHANGED jogo
         \/ \E a \in Apuracoes : Confirma(a)
         \/ \E j \in Jogos : \/ CadastrarJogo(j) \/ AtivarJogo(j) \/ DesativarJogo(j)
                             \/ EditarJogo(j) \/ DeletarJogo(j)
         \/ \E s \in Salvamentos : AtivaEscolhido(s)
OBVIOUS

LEMMA EscreveUsuario ==
  ASSUME [Next]_vars
  PROVE  \/ UNCHANGED usuario
         \/ \E r \in Envios : Upsert(r)
OBVIOUS

LEMMA EscrevePalpites ==
  ASSUME [Next]_vars
  PROVE  \/ UNCHANGED palpites
         \/ \E r \in Envios : InserePalpite(r)
         \/ \E j \in Jogos : DeletarJogo(j)
OBVIOUS

LEMMA EscrevePontuacao ==
  ASSUME [Next]_vars
  PROVE  \/ UNCHANGED pontuacao
         \/ \E a \in Apuracoes : Confirma(a)
OBVIOUS

LEMMA EscreveCupons ==
  ASSUME [Next]_vars
  PROVE  \/ UNCHANGED <<cupons, tipo>>
         \/ \E r \in Envios : InsereCupom(r)
         \/ \E a \in Apuracoes : Confirma(a)
OBVIOUS

LEMMA EscreveUtilizado ==
  ASSUME [Next]_vars
  PROVE  \/ UNCHANGED utilizado
         \/ \E c \in IdCupom : MarcarCupom(c)
OBVIOUS

LEMMA EscreveConfig ==
  ASSUME [Next]_vars
  PROVE  \/ UNCHANGED config
         \/ \E s \in Salvamentos : SalvaConfig(s)
OBVIOUS

LEMMA EscreveRelogio ==
  ASSUME [Next]_vars
  PROVE  \/ UNCHANGED agora
         \/ Tick
OBVIOUS

LEMMA EscreveDesconto ==
  ASSUME [Next]_vars
  PROVE  \/ UNCHANGED desconto
         \/ \E r \in Envios : LeConfig(r)
OBVIOUS

LEMMA EscreveLanding ==
  ASSUME [Next]_vars
  PROVE  \/ UNCHANGED landing
         \/ \E s \in Salvamentos : AtivaEscolhido(s) \/ SalvaConfig(s) \/ InterrompeLanding(s)
OBVIOUS

LEMMA EscreveEnvio ==
  ASSUME [Next]_vars
  PROVE  \/ UNCHANGED envio
         \/ \E r \in Envios : PassoEnvio(r) \/ Interrompe(r)
OBVIOUS

LEMMA EscreveApuracoes ==
  ASSUME [Next]_vars
  PROVE  \/ UNCHANGED apuracoes
         \/ \E a \in Apuracoes : PassoApuracao(a) \/ Desfaz(a)
OBVIOUS

HIDE DEF Next, PassoEnvio, PassoApuracao, foraJogo, vars, banco, tPalpites, tCupons, envios, apuracoes,
   Chega, TemAberto, RecusaPedido, BuscaJogo, ContaUsos, Upsert, InserePalpite,
   LeConfig, InsereCupom, Responde, Interrompe, RecebeResultado, AtualizaJogo,
   BuscaPalpites, ZeraCupons, PontuaPalpite, Confirma, Desfaz, CadastrarJogo,
   AtivarJogo, DesativarJogo, EditarJogo, DeletarJogo, MarcarCupom,
   AtivaEscolhido, SalvaConfig, InterrompeLanding, Tick, Vai

-----------------------------------------------------------------------------
(* Types.                                                                   *)

LEMMA CalcularPontosTipo ==
  ASSUME NEW p, NEW q
  PROVE  CalcularPontos(p, q) \in {0, 5, 10}
BY DEF CalcularPontos

LEMMA PlacarValidoTipo ==
  ASSUME NEW p \in Int \X Int, PlacarValido(p)
  PROVE  p \in Placar
BY DEF PlacarValido, Placar

\* A submission that passes the validations has its phone and its e-mail.
LEMMA CamposTipo ==
  ASSUME NEW r \in Envios, CamposValidos(r), EmailDe(r) # Nulo
  PROVE  /\ EmailDe(r) \in Emails /\ TelefoneDe(r) \in Telefones
         /\ Pedido[r].placar \in Placar /\ Pedido[r].jogo \in Jogos
<1>1. Pedido[r] \in [nomeValido : BOOLEAN, telefone : Numeros,
                     email : Enderecos, jogo : Jogos, placar : Int \X Int]
  BY PedidosAssumption
<1> QED
  BY <1>1, ConversoesAssumption, PlacarValidoTipo
  DEF CamposValidos, EmailDe, TelefoneDe

\* What the three UPDATEs of a row write.
LEMMA LinhaEscrita ==
  ASSUME NEW l \in LinhaJogo, NEW p \in Placar
  PROVE  /\ Ativado(l) \in LinhaJogo
         /\ Ativado(l).ativo = TRUE /\ Ativado(l).status = "ativo"
         /\ Ativado(l).placar = l.placar
         /\ Desativado(l) \in LinhaJogo
         /\ Desativado(l).ativo = FALSE
         /\ Desativado(l).status = IF l.status = "encerrado" THEN "encerrado" ELSE "agendado"
         /\ Desativado(l).placar = l.placar
         /\ ComResultado(l, p) \in LinhaJogo
         /\ ComResultado(l, p).ativo = FALSE
         /\ ComResultado(l, p).status = "encerrado"
         /\ ComResultado(l, p).placar = p
BY DEF LinhaJogo, StatusDoJogo, Ativado, Desativado, ComResultado

LEMMA TipoJogo ==
  ASSUME IInv, [Next]_vars
  PROVE  jogo' \in [Jogos -> LinhaJogo]
<1>0. jogo \in [Jogos -> LinhaJogo]
  BY DEF IInv, TypeOK
<1>1. ASSUME NEW a \in Apuracoes, Confirma(a)
      PROVE  jogo' \in [Jogos -> LinhaJogo]
  <2>1. ap[a].jogo \in Jogos /\ ap[a].placar \in Placar
    BY <1>1 DEF Confirma, IInv, ApuracaoCoerente, NaTransacao
  <2> QED
    BY <1>0, <1>1, <2>1, LinhaEscrita DEF Confirma
<1>2. ASSUME NEW j \in Jogos, CadastrarJogo(j)
      PROVE  jogo' \in [Jogos -> LinhaJogo]
  BY <1>0, <1>2, AdminAssumption DEF CadastrarJogo, LinhaJogo, StatusDoJogo
<1>3. ASSUME NEW j \in Jogos, AtivarJogo(j) \/ DesativarJogo(j)
      PROVE  jogo' \in [Jogos -> LinhaJogo]
  <2>1. Ativado(jogo[j]) \in LinhaJogo /\ Desativado(jogo[j]) \in LinhaJogo
    BY <1>0 DEF LinhaJogo, StatusDoJogo, Ativado, Desativado
  <2> QED
    BY <1>0, <1>3, <2>1 DEF AtivarJogo, DesativarJogo
<1>4. ASSUME NEW j \in Jogos, EditarJogo(j)
      PROVE  jogo' \in [Jogos -> LinhaJogo]
  BY <1>0, <1>4, AdminAssumption DEF EditarJogo, LinhaJogo
<1>5. ASSUME NEW j \in Jogos, DeletarJogo(j)
      PROVE  jogo' \in [Jogos -> LinhaJogo]
  BY <1>0, <1>5 DEF DeletarJogo, LinhaJogo, StatusDoJogo
<1>6. ASSUME NEW s \in Salvamentos, AtivaEscolhido(s)
      PROVE  jogo' \in [Jogos -> LinhaJogo]
  <2>1. \A j \in Jogos : Ativado(jogo[j]) \in LinhaJogo
    BY <1>0 DEF LinhaJogo, StatusDoJogo, Ativado
  <2> QED
    BY <1>0, <1>6, <2>1 DEF AtivaEscolhido
<1> QED
  BY <1>0, <1>1, <1>2, <1>3, <1>4, <1>5, <1>6, EscreveJogo

LEMMA TipoUsuario ==
  ASSUME IInv, [Next]_vars
  PROVE  usuario' \in [Emails -> Telefones \cup {Nulo}]
<1>0. usuario \in [Emails -> Telefones \cup {Nulo}]
  BY DEF IInv, TypeOK
<1>1. CASE UNCHANGED usuario
  BY <1>0, <1>1
<1>2. ASSUME NEW r \in Envios, Upsert(r)
      PROVE  usuario' \in [Emails -> Telefones \cup {Nulo}]
  <2>1. CamposValidos(r) /\ EmailDe(r) # Nulo
    BY <1>2 DEF IInv, Validado, Upsert
  <2>2. EmailDe(r) \in Emails /\ TelefoneDe(r) \in Telefones
    BY <2>1, CamposTipo
  <2> QED
    BY <1>0, <1>2, <2>2 DEF Upsert
<1> QED
  BY <1>1, <1>2, EscreveUsuario

LEMMA TipoPalpites ==
  ASSUME IInv, [Next]_vars
  PROVE  /\ palpites' \subseteq {r \in Envios : CamposValidos(r) /\ EmailDe(r) # Nulo}
         /\ pontuacao' \in [Envios -> {0, 5, 10}]
<1>0. /\ palpites \subseteq {r \in Envios : CamposValidos(r) /\ EmailDe(r) # Nulo}
      /\ pontuacao \in [Envios -> {0, 5, 10}]
  BY DEF IInv, TypeOK
<1>1. palpites' \subseteq {r \in Envios : CamposValidos(r) /\ EmailDe(r) # Nulo}
  <2>1. CASE UNCHANGED palpites
    BY <1>0, <2>1
  <2>2. ASSUME NEW r \in Envios, InserePalpite(r)
        PROVE  palpites' \subseteq {q \in Envios : CamposValidos(q) /\ EmailDe(q) # Nulo}
    <3>1. CamposValidos(r) /\ EmailDe(r) # Nulo
      BY <2>2 DEF IInv, Validado, InserePalpite
    <3> QED
      BY <1>0, <2>2, <3>1 DEF InserePalpite
  <2>3. CASE \E j \in Jogos : DeletarJogo(j)
    BY <1>0, <2>3 DEF DeletarJogo
  <2> QED
    BY <2>1, <2>2, <2>3, EscrevePalpites
<1>2. pontuacao' \in [Envios -> {0, 5, 10}]
  <2>1. CASE UNCHANGED pontuacao
    BY <1>0, <2>1
  <2>2. ASSUME NEW a \in Apuracoes, Confirma(a)
        PROVE  pontuacao' \in [Envios -> {0, 5, 10}]
    <3>1. \A r \in Envios : PontosApurados(a, r) \in {0, 5, 10}
      BY <1>0, CalcularPontosTipo DEF PontosApurados
    <3> QED
      BY <2>2, <3>1 DEF Confirma
  <2> QED
    BY <2>1, <2>2, EscrevePontuacao
<1> QED
  BY <1>1, <1>2

LEMMA TipoCupons ==
  ASSUME IInv, [Next]_vars
  PROVE  /\ cupons' \subseteq IdCupom /\ utilizado' \subseteq cupons'
         /\ tipo' \in [IdCupom -> Tipo]
<1>0. /\ cupons \subseteq IdCupom /\ utilizado \subseteq cupons
      /\ tipo \in [IdCupom -> Tipo]
      /\ desconto \in [Envios -> Int]
      /\ ap \in [Apuracoes -> Apuracao]
  BY DEF IInv, TypeOK
<1>1. cupons' \subseteq IdCupom /\ cupons \subseteq cupons' /\ tipo' \in [IdCupom -> Tipo]
  <2>1. CASE UNCHANGED <<cupons, tipo>>
    BY <1>0, <2>1
  <2>2. ASSUME NEW r \in Envios, InsereCupom(r)
        PROVE  cupons' \subseteq IdCupom /\ cupons \subseteq cupons' /\ tipo' \in [IdCupom -> Tipo]
    <3>1. [campo |-> "participacao", valor |-> desconto[r]] \in Tipo
      BY <1>0 DEF Tipo
    <3>2. <<"envio", r>> \in IdCupom
      BY DEF IdCupom
    <3> QED
      BY <1>0, <2>2, <3>1, <3>2 DEF InsereCupom
  <2>3. ASSUME NEW a \in Apuracoes, Confirma(a)
        PROVE  cupons' \subseteq IdCupom /\ cupons \subseteq cupons' /\ tipo' \in [IdCupom -> Tipo]
    <3>1. ap[a].acertos \subseteq IdCupom /\ ap[a].cfg \in Config
      BY <1>0 DEF Apuracao
    <3>2. Acerto(ap[a].cfg) \in Tipo /\ Participacao(ap[a].cfg) \in Tipo
      BY <3>1 DEF Acerto, Participacao, Tipo, Config
    <3>3. \A c \in IdCupom : TipoApurado(a, c) \in Tipo
      BY <1>0, <3>2 DEF TipoApurado
    <3>4. tipo' = [c \in IdCupom |-> TipoApurado(a, c)] /\ cupons' = cupons \cup ap[a].acertos
      BY <2>3 DEF Confirma
    <3> QED
      BY <1>0, <3>1, <3>3, <3>4
  <2> QED
    BY <2>1, <2>2, <2>3, EscreveCupons
<1>2. utilizado' \subseteq cupons \/ UNCHANGED utilizado
  <2>1. UNCHANGED utilizado \/ \E c \in IdCupom : MarcarCupom(c)
    BY EscreveUtilizado
  <2> QED
    BY <1>0, <2>1 DEF MarcarCupom
<1> QED
  BY <1>0, <1>1, <1>2

LEMMA TipoEnvio ==
  ASSUME IInv, [Next]_vars
  PROVE  /\ envio' \in [Envios -> {"novo"} \cup EmCurso \cup Respondido]
         /\ desconto' \in [Envios -> Int]
<1>0. /\ envio \in [Envios -> {"novo"} \cup EmCurso \cup Respondido]
      /\ desconto \in [Envios -> Int] /\ config \in Config
  BY DEF IInv, TypeOK
<1>1. envio' \in [Envios -> {"novo"} \cup EmCurso \cup Respondido]
  <2>1. UNCHANGED envio \/ \E r \in Envios, p \in EmCurso \cup Respondido : Vai(r, p)
    <3>1. ASSUME NEW r \in Envios, PassoEnvio(r) \/ Interrompe(r)
          PROVE  \E p \in EmCurso \cup Respondido : Vai(r, p)
      BY <3>1 DEF PassoEnvio, Interrompe, Chega, TemAberto, RecusaPedido, BuscaJogo,
        ContaUsos, Upsert, InserePalpite, LeConfig, InsereCupom, Responde,
        EmCurso, Respondido, Recusas
    <3> QED
      BY <3>1, EscreveEnvio
  <2> QED
    BY <1>0, <2>1 DEF Vai
<1>2. desconto' \in [Envios -> Int]
  <2>1. \A c \in Config : DescontoDeParticipacao(c) \in Int
    BY DEF Config, DescontoDeParticipacao
  <2>2. UNCHANGED desconto \/ \E r \in Envios : LeConfig(r)
    BY EscreveDesconto
  <2> QED
    BY <1>0, <2>1, <2>2 DEF LeConfig
<1> QED
  BY <1>1, <1>2

\* The rest of the types: what is left of a handler at its end has no effect.
LEMMA SemEfeitoTipo ==
  ASSUME NEW pc \in {"novo", "atualizaJogo", "ok", "Validacao", "NaoEncontrado", "falha"},
         NEW j \in Jogos \cup {Nulo}, NEW p \in Placar \cup {Nulo}, NEW c \in Config
  PROVE  /\ SemEfeito(pc, j, p, c) \in Apuracao
         /\ SemEfeito(pc, j, p, c).pc = pc
         /\ SemEfeito(pc, j, p, c).jogo = j
         /\ SemEfeito(pc, j, p, c).placar = p
         /\ SemEfeito(pc, j, p, c).lista = {}
         /\ SemEfeito(pc, j, p, c).restam = {}
         /\ SemEfeito(pc, j, p, c).acertos = {}
BY DEF SemEfeito, Apuracao

LEMMA EncerradaTipo ==
  ASSUME NEW pc \in {"novo", "ok", "Validacao", "NaoEncontrado", "falha"}
  PROVE  /\ Encerrada(pc) \in Apuracao /\ Encerrada(pc).pc = pc
         /\ Encerrada(pc).lista = {} /\ Encerrada(pc).restam = {}
         /\ Encerrada(pc).acertos = {}
<1>1. ConfigPadrao \in Config
  BY AdminAssumption
<1> QED
  BY <1>1 DEF Encerrada, SemEfeito, Apuracao

-----------------------------------------------------------------------------
(* What a step of a result request leaves in its handler.  No step touches  *)
(* the handler of another request.                                          *)

SoMuda(a) == \A b \in Apuracoes \ {a} : ap'[b] = ap[b]

LEMMA EfeitoRecebe ==
  ASSUME IInv, NEW a \in Apuracoes, RecebeResultado(a)
  PROVE  /\ ap' \in [Apuracoes -> Apuracao] /\ SoMuda(a)
         /\ ap'[a].lista = {} /\ ap'[a].restam = {} /\ ap'[a].acertos = {}
         /\ \/ ap'[a].pc = "Validacao"
            \/ ap'[a].pc = "atualizaJogo" /\ ap'[a].jogo \in Jogos /\ ap'[a].placar \in Placar
<1>0. ap \in [Apuracoes -> Apuracao] /\ config \in Config
  BY DEF IInv, TypeOK
<1>1. PICK j \in Jogos, p \in Placares :
        ap' = [ap EXCEPT ![a] = IF PlacarValido(p) THEN SemEfeito("atualizaJogo", j, p, config)
                                ELSE Encerrada("Validacao")]
  BY DEF RecebeResultado
<1>2. CASE PlacarValido(p)
  <2>1. p \in Placar
    BY <1>2, AdminAssumption, PlacarValidoTipo
  <2> QED
    BY <1>0, <1>1, <1>2, <2>1, SemEfeitoTipo DEF SoMuda
<1>3. CASE ~PlacarValido(p)
  BY <1>0, <1>1, <1>3, EncerradaTipo DEF SoMuda
<1> QED
  BY <1>2, <1>3

LEMMA EfeitoAtualiza ==
  ASSUME IInv, NEW a \in Apuracoes, AtualizaJogo(a)
  PROVE  /\ ap' \in [Apuracoes -> Apuracao] /\ SoMuda(a)
         /\ ap'[a].lista = {} /\ ap'[a].restam = {} /\ ap'[a].acertos = {}
         /\ \/ /\ ap'[a].pc = "buscaPalpites"
               /\ ap'[a].jogo = ap[a].jogo /\ ap'[a].placar = ap[a].placar
               /\ Existe(ap[a].jogo) /\ trava[ap[a].jogo] = Nulo
               /\ trava' = [trava EXCEPT ![ap[a].jogo] = a]
            \/ ap'[a].pc = "NaoEncontrado" /\ UNCHANGED trava
<1>0. ap \in [Apuracoes -> Apuracao] /\ ap[a] \in Apuracao
  BY DEF IInv, TypeOK
<1>1. ap[a].lista = {} /\ ap[a].restam = {} /\ ap[a].acertos = {}
  BY DEF AtualizaJogo, IInv, ApuracaoCoerente
<1>2. CASE Existe(ap[a].jogo)
  <2>1. [ap[a] EXCEPT !.pc = "buscaPalpites"] \in Apuracao
    BY <1>0 DEF Apuracao
  <2> QED
    BY <1>0, <1>1, <1>2, <2>1 DEF AtualizaJogo, SoMuda, Apuracao
<1>3. CASE ~Existe(ap[a].jogo)
  BY <1>0, <1>3, EncerradaTipo DEF AtualizaJogo, SoMuda
<1> QED
  BY <1>2, <1>3

LEMMA EfeitoBusca ==
  ASSUME IInv, NEW a \in Apuracoes, BuscaPalpites(a)
  PROVE  /\ ap' \in [Apuracoes -> Apuracao] /\ SoMuda(a)
         /\ ap'[a].pc = "zeraCupons"
         /\ ap'[a].jogo = ap[a].jogo /\ ap'[a].placar = ap[a].placar
         /\ ap'[a].lista = PalpitesDo(ap[a].jogo) /\ ap'[a].restam = ap'[a].lista
         /\ ap'[a].acertos = ap[a].acertos
<1>0. ap \in [Apuracoes -> Apuracao] /\ ap[a] \in Apuracao /\ palpites \subseteq Envios
  BY DEF IInv, TypeOK
<1>1. PalpitesDo(ap[a].jogo) \subseteq Envios
  BY <1>0 DEF PalpitesDo
<1> DEFINE nova == [ap[a] EXCEPT !.pc = "zeraCupons", !.lista = PalpitesDo(ap[a].jogo),
                                 !.restam = PalpitesDo(ap[a].jogo)]
<1>2. /\ nova \in Apuracao /\ nova.pc = "zeraCupons"
      /\ nova.jogo = ap[a].jogo /\ nova.placar = ap[a].placar
      /\ nova.lista = PalpitesDo(ap[a].jogo) /\ nova.restam = PalpitesDo(ap[a].jogo)
      /\ nova.acertos = ap[a].acertos
  BY <1>0, <1>1 DEF Apuracao
<1>3. ap' = [ap EXCEPT ![a] = nova]
  BY DEF BuscaPalpites
<1> HIDE DEF nova
<1> QED
  BY <1>0, <1>2, <1>3 DEF SoMuda

LEMMA EfeitoZera ==
  ASSUME IInv, NEW a \in Apuracoes, ZeraCupons(a)
  PROVE  /\ ap' \in [Apuracoes -> Apuracao] /\ SoMuda(a)
         /\ ap'[a].pc = "pontua"
         /\ ap'[a].jogo = ap[a].jogo /\ ap'[a].placar = ap[a].placar
         /\ ap'[a].lista = ap[a].lista /\ ap'[a].restam = ap[a].restam
         /\ ap'[a].acertos = ap[a].acertos
<1>0. ap \in [Apuracoes -> Apuracao] /\ ap[a] \in Apuracao /\ cupons \subseteq IdCupom
  BY DEF IInv, TypeOK
<1>1. CuponsDoJogo(ap[a].jogo) \subseteq IdCupom
  BY <1>0 DEF CuponsDoJogo
<1> DEFINE nova == [ap[a] EXCEPT !.pc = "pontua", !.zerados = CuponsDoJogo(ap[a].jogo)]
<1>2. /\ nova \in Apuracao /\ nova.pc = "pontua"
      /\ nova.jogo = ap[a].jogo /\ nova.placar = ap[a].placar
      /\ nova.lista = ap[a].lista /\ nova.restam = ap[a].restam
      /\ nova.acertos = ap[a].acertos
  BY <1>0, <1>1 DEF Apuracao
<1>3. ap' = [ap EXCEPT ![a] = nova]
  BY DEF ZeraCupons
<1> HIDE DEF nova
<1> QED
  BY <1>0, <1>2, <1>3 DEF SoMuda

LEMMA EfeitoPontua ==
  ASSUME IInv, NEW a \in Apuracoes, NEW r \in Envios, PontuaPalpite(a, r)
  PROVE  /\ ap' \in [Apuracoes -> Apuracao] /\ SoMuda(a)
         /\ ap'[a].pc = "pontua"
         /\ ap'[a].jogo = ap[a].jogo /\ ap'[a].placar = ap[a].placar
         /\ ap'[a].lista = ap[a].lista /\ ap'[a].restam = ap[a].restam \ {r}
         /\ ap'[a].acertos = ap[a].acertos \cup Premios(a, r)
<1>0. ap \in [Apuracoes -> Apuracao] /\ ap[a] \in Apuracao /\ cupons \subseteq IdCupom
  BY DEF IInv, TypeOK
<1>1. Premios(a, r) \subseteq IdCupom
  BY <1>0 DEF Premios, CuponsPremiados, CuponsDe, CuponsDoJogo, IdCupom
<1> DEFINE nova == [ap[a] EXCEPT !.restam = ap[a].restam \ {r},
                                 !.acertos = ap[a].acertos \cup Premios(a, r)]
<1>2. /\ nova \in Apuracao /\ nova.pc = ap[a].pc
      /\ nova.jogo = ap[a].jogo /\ nova.placar = ap[a].placar
      /\ nova.lista = ap[a].lista /\ nova.restam = ap[a].restam \ {r}
      /\ nova.acertos = ap[a].acertos \cup Premios(a, r)
  BY <1>0, <1>1 DEF Apuracao
<1>3. ap' = [ap EXCEPT ![a] = nova] /\ ap[a].pc = "pontua"
  BY DEF PontuaPalpite
<1> HIDE DEF nova
<1> QED
  BY <1>0, <1>2, <1>3 DEF SoMuda

LEMMA EfeitoFim ==
  ASSUME IInv, NEW a \in Apuracoes, Confirma(a) \/ Desfaz(a)
  PROVE  /\ ap' \in [Apuracoes -> Apuracao] /\ SoMuda(a)
         /\ ap'[a].pc \in {"ok", "falha"}
         /\ ap'[a].lista = {} /\ ap'[a].restam = {} /\ ap'[a].acertos = {}
         /\ trava' = SoltaTrava(a)
<1>0. ap \in [Apuracoes -> Apuracao]
  BY DEF IInv, TypeOK
<1> QED
  BY <1>0, EncerradaTipo DEF Confirma, Desfaz, SoMuda

\* The cases of a step that writes the handler of a result request.
LEMMA PassosDaApuracao ==
  ASSUME [Next]_vars
  PROVE  \/ UNCHANGED <<ap, trava>>
         \/ \E a \in Apuracoes :
              \/ RecebeResultado(a) /\ UNCHANGED trava
              \/ AtualizaJogo(a)
              \/ BuscaPalpites(a) /\ UNCHANGED trava
              \/ ZeraCupons(a) /\ UNCHANGED trava
              \/ \E r \in Envios : PontuaPalpite(a, r) /\ UNCHANGED trava
              \/ Confirma(a) \/ Desfaz(a)
BY EscreveApuracoes DEF PassoApuracao, RecebeResultado, BuscaPalpites, ZeraCupons,
   PontuaPalpite, apuracoes

LEMMA TipoApuracoes ==
  ASSUME IInv, [Next]_vars
  PROVE  /\ ap' \in [Apuracoes -> Apuracao]
         /\ trava' \in [Jogos -> Apuracoes \cup {Nulo}]
<1>0. /\ ap \in [Apuracoes -> Apuracao] /\ trava \in [Jogos -> Apuracoes \cup {Nulo}]
  BY DEF IInv, TypeOK
<1>1. CASE UNCHANGED <<ap, trava>>
  BY <1>0, <1>1
<1>2. ASSUME NEW a \in Apuracoes, RecebeResultado(a), UNCHANGED trava
      PROVE  ap' \in [Apuracoes -> Apuracao] /\ trava' \in [Jogos -> Apuracoes \cup {Nulo}]
  BY <1>0, <1>2, EfeitoRecebe
<1>3. ASSUME NEW a \in Apuracoes, AtualizaJogo(a)
      PROVE  ap' \in [Apuracoes -> Apuracao] /\ trava' \in [Jogos -> Apuracoes \cup {Nulo}]
  BY <1>0, <1>3, EfeitoAtualiza
<1>4. ASSUME NEW a \in Apuracoes, BuscaPalpites(a), UNCHANGED trava
      PROVE  ap' \in [Apuracoes -> Apuracao] /\ trava' \in [Jogos -> Apuracoes \cup {Nulo}]
  BY <1>0, <1>4, EfeitoBusca
<1>5. ASSUME NEW a \in Apuracoes, ZeraCupons(a), UNCHANGED trava
      PROVE  ap' \in [Apuracoes -> Apuracao] /\ trava' \in [Jogos -> Apuracoes \cup {Nulo}]
  BY <1>0, <1>5, EfeitoZera
<1>6. ASSUME NEW a \in Apuracoes, NEW r \in Envios, PontuaPalpite(a, r), UNCHANGED trava
      PROVE  ap' \in [Apuracoes -> Apuracao] /\ trava' \in [Jogos -> Apuracoes \cup {Nulo}]
  BY <1>0, <1>6, EfeitoPontua
<1>7. ASSUME NEW a \in Apuracoes, Confirma(a) \/ Desfaz(a)
      PROVE  ap' \in [Apuracoes -> Apuracao] /\ trava' \in [Jogos -> Apuracoes \cup {Nulo}]
  BY <1>0, <1>7, EfeitoFim DEF SoltaTrava
<1> QED
  BY <1>1, <1>2, <1>3, <1>4, <1>5, <1>6, <1>7, PassosDaApuracao

LEMMA TipoResto ==
  ASSUME IInv, [Next]_vars
  PROVE  config' \in Config /\ agora' \in 0..Fim /\ landing' \in [Salvamentos -> Salvamento]
<1>0. config \in Config /\ agora \in 0..Fim /\ landing \in [Salvamentos -> Salvamento]
  BY DEF IInv, TypeOK
<1>1. config' \in Config
  BY <1>0, EscreveConfig DEF SalvaConfig, Salvamento
<1>2. agora' \in 0..Fim
  BY <1>0, EscreveRelogio, LimitesAssumption DEF Tick
<1>3. landing' \in [Salvamentos -> Salvamento]
  BY <1>0, EscreveLanding, AdminAssumption
  DEF AtivaEscolhido, SalvaConfig, InterrompeLanding, Salvamento
<1> QED
  BY <1>1, <1>2, <1>3

LEMMA TypeOKPasso ==
  ASSUME IInv, [Next]_vars
  PROVE  TypeOK'
<1>1. {r \in Envios : CamposValidos(r) /\ EmailDe(r) # Nulo}'
        = {r \in Envios : CamposValidos(r) /\ EmailDe(r) # Nulo}
  BY DEF CamposValidos, EmailDe, TelefoneDe
<1> QED
  BY <1>1, TipoJogo, TipoUsuario, TipoPalpites, TipoCupons, TipoEnvio, TipoApuracoes, TipoResto
  DEF TypeOK

-----------------------------------------------------------------------------
(* The other conjuncts of IInv.                                             *)

\* How a step moves submission `r`.
LEMMA PassosDoEnvio ==
  ASSUME IInv, [Next]_vars, NEW r \in Envios, envio'[r] # envio[r]
  PROVE  PassoEnvio(r) \/ Interrompe(r)
<1>0. envio \in [Envios -> {"novo"} \cup EmCurso \cup Respondido]
  BY DEF IInv, TypeOK
<1>1. PICK q \in Envios : PassoEnvio(q) \/ Interrompe(q)
  BY EscreveEnvio
<1>2. \E p : Vai(q, p)
  BY <1>1 DEF PassoEnvio, Interrompe, Chega, TemAberto, RecusaPedido, BuscaJogo,
    ContaUsos, Upsert, InserePalpite, LeConfig, InsereCupom, Responde
<1>3. q = r
  BY <1>0, <1>2 DEF Vai
<1> QED
  BY <1>1, <1>3

\* Where a submission is before a step that takes it past the validations, or
\* past its INSERT.
LEMMA OrigemDoEnvio ==
  ASSUME IInv, [Next]_vars, NEW r \in Envios, envio'[r] # envio[r]
  PROVE  /\ envio'[r] = "contaUsos" => BuscaJogo(r)
         /\ envio'[r] = "upsert" => envio[r] = "contaUsos"
         /\ envio'[r] = "inserePalpite" => envio[r] = "upsert"
         /\ envio'[r] = "leConfig" => envio[r] = "inserePalpite" /\ InserePalpite(r)
                                      /\ AceitaPalpite(r)
         /\ envio'[r] = "insereCupom" => envio[r] = "leConfig"
         /\ envio'[r] = "responde" => envio[r] = "insereCupom"
         /\ envio'[r] = "ok" => envio[r] = "responde"
         /\ envio'[r] \in AntesDoPalpite => envio[r] \in AntesDoPalpite
<1>0. envio \in [Envios -> {"novo"} \cup EmCurso \cup Respondido]
  BY DEF IInv, TypeOK
<1>1. PassoEnvio(r) \/ Interrompe(r)
  BY PassosDoEnvio
<1> QED
  BY <1>0, <1>1 DEF PassoEnvio, Interrompe, Chega, TemAberto, RecusaPedido, BuscaJogo,
    ContaUsos, Upsert, InserePalpite, LeConfig, InsereCupom, Responde, Vai, AntesDoPalpite

LEMMA ValidadoPasso ==
  ASSUME IInv, [Next]_vars
  PROVE  Validado'
<1> SUFFICES ASSUME NEW r \in Envios,
                    envio'[r] \in {"contaUsos", "upsert", "inserePalpite"} \cup DepoisDoPalpite
             PROVE  CamposValidos(r) /\ EmailDe(r) # Nulo
  BY DEF Validado, CamposValidos, EmailDe, TelefoneDe
<1>1. CASE envio'[r] = envio[r]
  BY <1>1 DEF IInv, Validado
<1>2. CASE BuscaJogo(r)
  BY <1>2 DEF BuscaJogo
<1>3. CASE envio[r] \in {"contaUsos", "upsert", "inserePalpite"} \cup DepoisDoPalpite
  BY <1>3 DEF IInv, Validado
<1> QED
  BY <1>1, <1>2, <1>3, OrigemDoEnvio DEF DepoisDoPalpite

LEMMA ApuracaoCoerentePasso ==
  ASSUME IInv, [Next]_vars
  PROVE  ApuracaoCoerente'
<1>0. ApuracaoCoerente
  BY DEF IInv
<1> USE DEF ApuracaoCoerente, NaTransacao, SoMuda
<1>1. CASE UNCHANGED <<ap, trava>>
  BY <1>0, <1>1
<1>2. ASSUME NEW a \in Apuracoes, RecebeResultado(a)  PROVE ApuracaoCoerente'
  BY <1>0, <1>2, EfeitoRecebe
<1>3. ASSUME NEW a \in Apuracoes, AtualizaJogo(a)  PROVE ApuracaoCoerente'
  BY <1>0, <1>3, EfeitoAtualiza DEF AtualizaJogo
<1>4. ASSUME NEW a \in Apuracoes, BuscaPalpites(a)  PROVE ApuracaoCoerente'
  BY <1>0, <1>4, EfeitoBusca DEF BuscaPalpites
<1>5. ASSUME NEW a \in Apuracoes, ZeraCupons(a)  PROVE ApuracaoCoerente'
  BY <1>0, <1>5, EfeitoZera DEF ZeraCupons
<1>6. ASSUME NEW a \in Apuracoes, NEW r \in Envios, PontuaPalpite(a, r)
      PROVE  ApuracaoCoerente'
  BY <1>0, <1>6, EfeitoPontua DEF PontuaPalpite
<1>7. ASSUME NEW a \in Apuracoes, Confirma(a) \/ Desfaz(a)  PROVE ApuracaoCoerente'
  BY <1>0, <1>7, EfeitoFim
<1> QED
  BY <1>1, <1>2, <1>3, <1>4, <1>5, <1>6, <1>7, PassosDaApuracao

\* What a step may do to one game: create it, delete it, give it a score, or
\* leave its existence and its score alone.
LEMMA PassoDoJogo ==
  ASSUME IInv, [Next]_vars, NEW k \in Jogos
  PROVE  \/ /\ Existe(k)' <=> Existe(k)
            /\ jogo'[k].status = "nao_criado" <=> jogo[k].status = "nao_criado"
            /\ jogo'[k].placar = jogo[k].placar
         \/ /\ CadastrarJogo(k) /\ Existe(k)' /\ jogo[k].status = "nao_criado"
            /\ jogo'[k].status # "nao_criado"
         \/ /\ DeletarJogo(k) /\ ~Existe(k)' /\ jogo'[k].status # "nao_criado"
         \/ /\ Existe(k)' /\ Existe(k)
            /\ \E a \in Apuracoes : Confirma(a) /\ ap[a].jogo = k /\ jogo'[k].placar = ap[a].placar
<1>0. /\ jogo \in [Jogos -> LinhaJogo]
  BY DEF IInv, TypeOK
<1>l. \A j \in Jogos : /\ Ativado(jogo[j]).status = "ativo"
                       /\ Ativado(jogo[j]).placar = jogo[j].placar
                       /\ Desativado(jogo[j]).placar = jogo[j].placar
                       /\ Desativado(jogo[j]).status \in {"encerrado", "agendado"}
  BY <1>0 DEF LinhaJogo, Ativado, Desativado
<1> DEFINE Igual == /\ Existe(k)' <=> Existe(k)
                    /\ jogo'[k].status = "nao_criado" <=> jogo[k].status = "nao_criado"
                    /\ jogo'[k].placar = jogo[k].placar
<1>1. ASSUME NEW a \in Apuracoes, Confirma(a)
      PROVE  Igual \/ (/\ Existe(k)' /\ Existe(k) /\ ap[a].jogo = k
                       /\ jogo'[k].placar = ap[a].placar)
  <2>1. /\ ap[a].jogo \in Jogos /\ ap[a].placar \in Placar /\ Existe(ap[a].jogo)
    BY <1>1 DEF Confirma, IInv, ApuracaoCoerente, TransacaoIsolada, NaTransacao
  <2>2. jogo' = [jogo EXCEPT ![ap[a].jogo] = ComResultado(jogo[ap[a].jogo], ap[a].placar)]
    BY <1>1 DEF Confirma
  <2>3. CASE ap[a].jogo = k
    <3>1. jogo'[k] = ComResultado(jogo[k], ap[a].placar)
      BY <1>0, <2>2, <2>3
    <3>2. jogo'[k].status = "encerrado" /\ jogo'[k].placar = ap[a].placar
      BY <1>0, <3>1 DEF ComResultado, LinhaJogo
    <3> QED
      BY <2>1, <2>3, <3>2 DEF Existe
  <2>4. CASE ap[a].jogo # k
    BY <1>0, <2>1, <2>2, <2>4 DEF Existe
  <2> QED
    BY <2>3, <2>4
<1>2. ASSUME NEW j \in Jogos, CadastrarJogo(j)
      PROVE  Igual \/ (CadastrarJogo(k) /\ Existe(k)' /\ jogo[k].status = "nao_criado"
                       /\ jogo'[k].status # "nao_criado")
  <2>1. PICK ativo \in BOOLEAN, data \in Datas :
          jogo' = [jogo EXCEPT ![j] = [status |-> IF ativo THEN "ativo" ELSE "agendado",
                                       ativo |-> ativo, data |-> data, placar |-> Nulo]]
    BY <1>2 DEF CadastrarJogo
  <2>2. CASE j = k
    <3>1. jogo'[k].status \in {"ativo", "agendado"}
      BY <1>0, <2>1, <2>2
    <3> QED
      BY <1>2, <2>2, <3>1 DEF CadastrarJogo, Existe
  <2>3. CASE j # k
    BY <1>0, <2>1, <2>3 DEF Existe
  <2> QED
    BY <2>2, <2>3
<1>3. ASSUME NEW j \in Jogos, AtivarJogo(j) \/ DesativarJogo(j)  PROVE Igual
  BY <1>0, <1>l, <1>3 DEF AtivarJogo, DesativarJogo, Livre, Existe
<1>4. ASSUME NEW j \in Jogos, EditarJogo(j)  PROVE Igual
  BY <1>0, <1>4 DEF EditarJogo, LinhaJogo, Existe
<1>5. ASSUME NEW j \in Jogos, DeletarJogo(j)
      PROVE  Igual \/ (DeletarJogo(k) /\ ~Existe(k)' /\ jogo'[k].status # "nao_criado")
  BY <1>0, <1>5 DEF DeletarJogo, Existe
<1>6. ASSUME NEW s \in Salvamentos, AtivaEscolhido(s)  PROVE Igual
  BY <1>0, <1>l, <1>6 DEF AtivaEscolhido, AtivavelPelaLanding, Existe
<1>7. CASE UNCHANGED jogo
  BY <1>7 DEF Existe
<1> QED
  BY <1>1, <1>2, <1>3, <1>4, <1>5, <1>6, <1>7, EscreveJogo

LEMMA StatusCoerentePasso ==
  ASSUME IInv, [Next]_vars
  PROVE  StatusCoerente'
<1>0. jogo \in [Jogos -> LinhaJogo] /\ StatusCoerente
  BY DEF IInv, TypeOK
<1>1. ASSUME NEW a \in Apuracoes, Confirma(a)  PROVE StatusCoerente'
  <2>1. ap[a].jogo \in Jogos /\ ap[a].placar \in Placar
    BY <1>1 DEF Confirma, IInv, ApuracaoCoerente, NaTransacao
  <2>2. jogo' = [jogo EXCEPT ![ap[a].jogo] = ComResultado(jogo[ap[a].jogo], ap[a].placar)]
    BY <1>1 DEF Confirma
  <2>3. /\ ComResultado(jogo[ap[a].jogo], ap[a].placar).ativo = FALSE
        /\ ComResultado(jogo[ap[a].jogo], ap[a].placar).status = "encerrado"
        /\ ComResultado(jogo[ap[a].jogo], ap[a].placar).placar # Nulo
    BY <1>0, <2>1, NuloAssumption DEF ComResultado, LinhaJogo
  <2> QED
    BY <1>0, <2>1, <2>2, <2>3 DEF StatusCoerente
<1>2. ASSUME NEW j \in Jogos, CadastrarJogo(j)  PROVE StatusCoerente'
  BY <1>0, <1>2 DEF CadastrarJogo, StatusCoerente
<1>3. ASSUME NEW j \in Jogos, AtivarJogo(j)  PROVE StatusCoerente'
  BY <1>0, <1>3 DEF AtivarJogo, Ativado, LinhaJogo, StatusCoerente
<1>4. ASSUME NEW j \in Jogos, DesativarJogo(j)  PROVE StatusCoerente'
  BY <1>0, <1>4 DEF DesativarJogo, Desativado, LinhaJogo, StatusCoerente
<1>5. ASSUME NEW j \in Jogos, EditarJogo(j)  PROVE StatusCoerente'
  BY <1>0, <1>5 DEF EditarJogo, LinhaJogo, StatusCoerente
<1>6. ASSUME NEW j \in Jogos, DeletarJogo(j)  PROVE StatusCoerente'
  BY <1>0, <1>6 DEF DeletarJogo, StatusCoerente
<1>7. ASSUME NEW s \in Salvamentos, AtivaEscolhido(s)  PROVE StatusCoerente'
  BY <1>0, <1>7 DEF AtivaEscolhido, Ativado, LinhaJogo, StatusCoerente
<1>8. CASE UNCHANGED jogo
  BY <1>0, <1>8 DEF StatusCoerente
<1> QED
  BY <1>1, <1>2, <1>3, <1>4, <1>5, <1>6, <1>7, <1>8, EscreveJogo

LEMMA PalpiteDoEnvioPasso ==
  ASSUME IInv, [Next]_vars
  PROVE  PalpiteDoEnvio'
<1> SUFFICES ASSUME NEW r \in Envios
             PROVE  /\ envio'[r] \in AntesDoPalpite => r \notin palpites' /\ pontuacao'[r] = 0
                    /\ envio'[r] \in DepoisDoPalpite /\ Existe(Pedido[r].jogo)' => r \in palpites'
  BY DEF PalpiteDoEnvio, AntesDoPalpite, DepoisDoPalpite
<1>0. /\ envio[r] \in AntesDoPalpite => r \notin palpites /\ pontuacao[r] = 0
      /\ envio[r] \in DepoisDoPalpite /\ Existe(Pedido[r].jogo) => r \in palpites
      /\ envio[r] \in DepoisDoPalpite => jogo[Pedido[r].jogo].status # "nao_criado"
      /\ Pedido[r].jogo \in Jogos
  BY PedidosAssumption DEF IInv, PalpiteDoEnvio, JogoDoPalpite
<1>1. ASSUME envio'[r] \in AntesDoPalpite
      PROVE  r \notin palpites' /\ pontuacao'[r] = 0
  <2>1. envio[r] \in AntesDoPalpite
    BY <1>1, OrigemDoEnvio
  <2>2. r \notin palpites'
    <3>1. ASSUME NEW q \in Envios, InserePalpite(q), r \in palpites'
          PROVE  FALSE
      <4>1. q = r /\ envio'[r] = "leConfig"
        BY <1>0, <2>1, <3>1 DEF InserePalpite, Vai, IInv, TypeOK
      <4> QED
        BY <1>1, <4>1 DEF AntesDoPalpite
    <3> QED
      BY <1>0, <2>1, <3>1, EscrevePalpites DEF DeletarJogo
  <2>3. pontuacao'[r] = 0
    <3>1. ASSUME NEW a \in Apuracoes, Confirma(a)
          PROVE  pontuacao'[r] = 0
      <4>1. ap[a].lista \subseteq palpites
        BY <3>1 DEF IInv, TransacaoIsolada, Confirma, NaTransacao, PalpitesDo
      <4> QED
        BY <1>0, <2>1, <3>1, <4>1 DEF Confirma, PontosApurados
    <3> QED
      BY <1>0, <2>1, <3>1, EscrevePontuacao
  <2> QED
    BY <2>2, <2>3
<1>2. ASSUME envio'[r] \in DepoisDoPalpite, Existe(Pedido[r].jogo)'
      PROVE  r \in palpites'
  <2>1. CASE InserePalpite(r) /\ AceitaPalpite(r)
    BY <2>1 DEF InserePalpite
  <2>2. CASE envio[r] \in DepoisDoPalpite
    <3>1. Existe(Pedido[r].jogo)
      BY <1>0, <1>2, <2>2, PassoDoJogo
    <3>2. r \in palpites
      BY <1>0, <2>2, <3>1
    <3>3. ASSUME NEW j \in Jogos, DeletarJogo(j)
          PROVE  r \in palpites'
      <4>1. j # Pedido[r].jogo
        BY <1>2, <3>3 DEF DeletarJogo, Existe, IInv, TypeOK
      <4> QED
        BY <3>2, <3>3, <4>1 DEF DeletarJogo, PalpitesDo
    <3> QED
      BY <3>2, <3>3, EscrevePalpites DEF InserePalpite
  <2> QED
    BY <1>2, <2>1, <2>2, OrigemDoEnvio DEF DepoisDoPalpite
<1> QED
  BY <1>1, <1>2

LEMMA JogoDoPalpitePasso ==
  ASSUME IInv, [Next]_vars
  PROVE  JogoDoPalpite'
<1>0. JogoDoPalpite /\ palpites \subseteq Envios /\ cupons \subseteq IdCupom
  BY DEF IInv, TypeOK
<1>j. \A r \in Envios : Pedido[r].jogo \in Jogos
  BY PedidosAssumption
<1>1. ASSUME NEW r \in palpites'
      PROVE  Existe(Pedido[r].jogo)'
  <2>1. CASE r \in palpites
    <3>1. ASSUME DeletarJogo(Pedido[r].jogo)  PROVE FALSE
      BY <1>1, <2>1, <3>1 DEF DeletarJogo, PalpitesDo
    <3> QED
      BY <1>0, <1>j, <2>1, <3>1, PassoDoJogo DEF JogoDoPalpite
  <2>2. CASE r \notin palpites
    <3>1. \E q \in Envios : InserePalpite(q)
      BY <1>1, <2>2, EscrevePalpites DEF DeletarJogo
    <3> QED
      BY <1>1, <2>2, <3>1 DEF InserePalpite, AceitaPalpite, Existe
  <2> QED
    BY <2>1, <2>2
<1>2. ASSUME NEW r \in Envios, envio'[r] \in DepoisDoPalpite
      PROVE  jogo'[Pedido[r].jogo].status # "nao_criado"
  <2>1. envio[r] \in DepoisDoPalpite \/ Existe(Pedido[r].jogo)
    BY <1>2, OrigemDoEnvio DEF DepoisDoPalpite, AceitaPalpite
  <2> QED
    BY <1>0, <1>j, <2>1, PassoDoJogo DEF JogoDoPalpite, Existe
<1>3. ASSUME NEW c \in cupons'
      PROVE  jogo'[Pedido[c[2]].jogo].status # "nao_criado"
  <2>1. CASE c \in cupons
    <3>1. c[2] \in Envios
      BY <1>0, <2>1 DEF IdCupom
    <3> QED
      BY <1>0, <1>j, <2>1, <3>1, PassoDoJogo DEF JogoDoPalpite, Existe
  <2>2. ASSUME NEW r \in Envios, InsereCupom(r), c \notin cupons
        PROVE  jogo'[Pedido[c[2]].jogo].status # "nao_criado"
    BY <1>3, <2>2 DEF InsereCupom, Existe
  <2>3. ASSUME NEW a \in Apuracoes, Confirma(a), c \notin cupons
        PROVE  jogo'[Pedido[c[2]].jogo].status # "nao_criado"
    <3>1. c[2] \in palpites
      BY <1>3, <2>3 DEF Confirma, IInv, AcertosDoJogo, NaTransacao, PalpitesDo
    <3> QED
      BY <1>0, <1>j, <3>1, PassoDoJogo DEF JogoDoPalpite, Existe
  <2> QED
    BY <1>3, <2>1, <2>2, <2>3, EscreveCupons
<1> QED
  BY <1>1, <1>2, <1>3 DEF JogoDoPalpite, DepoisDoPalpite

\* While a transaction is open, its game and the rows of its game stay.
LEMMA LinhasDaTransacao ==
  ASSUME IInv, [Next]_vars, NEW a \in Apuracoes, NaTransacao(a), NEW j, j = ap[a].jogo
  PROVE  /\ j \in Jogos /\ trava[j] = a /\ Existe(j) /\ Existe(j)'
         /\ \A r \in PalpitesDo(j) : r \in palpites'
<1>1. j \in Jogos /\ trava[j] = a /\ Existe(j)
  BY DEF IInv, ApuracaoCoerente, TransacaoIsolada
<1>2. ~DeletarJogo(j)
  BY <1>1, NuloAssumption DEF DeletarJogo, Livre
<1>3. Existe(j)'
  BY <1>1, <1>2, PassoDoJogo DEF Existe
<1>4. ASSUME NEW k \in Jogos, DeletarJogo(k), NEW r \in PalpitesDo(j)
      PROVE  r \in palpites'
  BY <1>2, <1>4 DEF DeletarJogo, PalpitesDo
<1> QED
  BY <1>1, <1>3, <1>4, EscrevePalpites DEF InserePalpite, PalpitesDo

LEMMA TransacaoIsoladaPasso ==
  ASSUME IInv, [Next]_vars
  PROVE  TransacaoIsolada'
<1>0. /\ TransacaoIsolada /\ ApuracaoCoerente
      /\ trava \in [Jogos -> Apuracoes \cup {Nulo}] /\ Nulo \notin Apuracoes
  BY NuloAssumption DEF IInv, TypeOK
\* The first conjunct: who holds the lock.
<1>1. ASSUME NEW j \in Jogos, NEW b \in Apuracoes
      PROVE  trava'[j] = b <=> NaTransacao(b)' /\ ap'[b].jogo = j
  <2> USE DEF NaTransacao, SoMuda
  <2>0. trava[j] = b <=> NaTransacao(b) /\ ap[b].jogo = j
    BY <1>0 DEF TransacaoIsolada
  <2>1. CASE UNCHANGED <<ap, trava>>
    BY <2>0, <2>1
  <2>2. ASSUME NEW a \in Apuracoes, RecebeResultado(a), UNCHANGED trava
        PROVE  trava'[j] = b <=> NaTransacao(b)' /\ ap'[b].jogo = j
    BY <2>0, <2>2, EfeitoRecebe DEF RecebeResultado
  <2>3. ASSUME NEW a \in Apuracoes, AtualizaJogo(a)
        PROVE  trava'[j] = b <=> NaTransacao(b)' /\ ap'[b].jogo = j
    <3>1. ap[a].jogo \in Jogos /\ ap[a].pc = "atualizaJogo"
      BY <1>0, <2>3 DEF AtualizaJogo, ApuracaoCoerente
    <3> QED
      BY <1>0, <2>0, <2>3, <3>1, EfeitoAtualiza
  <2>4. ASSUME NEW a \in Apuracoes, BuscaPalpites(a), UNCHANGED trava
        PROVE  trava'[j] = b <=> NaTransacao(b)' /\ ap'[b].jogo = j
    BY <2>0, <2>4, EfeitoBusca DEF BuscaPalpites
  <2>5. ASSUME NEW a \in Apuracoes, ZeraCupons(a), UNCHANGED trava
        PROVE  trava'[j] = b <=> NaTransacao(b)' /\ ap'[b].jogo = j
    BY <2>0, <2>5, EfeitoZera DEF ZeraCupons
  <2>6. ASSUME NEW a \in Apuracoes, NEW r \in Envios, PontuaPalpite(a, r), UNCHANGED trava
        PROVE  trava'[j] = b <=> NaTransacao(b)' /\ ap'[b].jogo = j
    BY <2>0, <2>6, EfeitoPontua DEF PontuaPalpite
  <2>7. ASSUME NEW a \in Apuracoes, Confirma(a) \/ Desfaz(a)
        PROVE  trava'[j] = b <=> NaTransacao(b)' /\ ap'[b].jogo = j
    <3>1. trava'[j] = IF trava[j] = a THEN Nulo ELSE trava[j]
      BY <2>7, EfeitoFim DEF SoltaTrava
    <3> QED
      BY <1>0, <2>0, <2>7, <3>1, EfeitoFim
  <2> QED
    BY <2>1, <2>2, <2>3, <2>4, <2>5, <2>6, <2>7, PassosDaApuracao
\* The second: what the transaction read is still there.
<1>2. ASSUME NEW b \in Apuracoes, NaTransacao(b)'
      PROVE  Existe(ap[b].jogo)' /\ ap'[b].jogo = ap[b].jogo
             /\ \A r \in ap'[b].lista : r \in palpites' /\ Pedido[r].jogo = ap[b].jogo
  <2> USE DEF NaTransacao, SoMuda
  <2>1. CASE UNCHANGED <<ap, trava>>
    BY <1>0, <1>2, <2>1, LinhasDaTransacao DEF TransacaoIsolada, PalpitesDo
  <2>2. ASSUME NEW a \in Apuracoes, RecebeResultado(a)
        PROVE  NaTransacao(b) /\ ap'[b] = ap[b]
    BY <1>2, <2>2, EfeitoRecebe
  <2>3. ASSUME NEW a \in Apuracoes, AtualizaJogo(a)
        PROVE  \/ NaTransacao(b) /\ ap'[b] = ap[b]
               \/ /\ ap'[b].lista = {} /\ ap'[b].jogo = ap[b].jogo /\ Existe(ap[b].jogo)
                  /\ UNCHANGED jogo
    BY <1>2, <2>3, EfeitoAtualiza DEF AtualizaJogo, banco
  <2>4. ASSUME NEW a \in Apuracoes, BuscaPalpites(a)
        PROVE  NaTransacao(b) /\ (ap'[b] = ap[b] \/ (/\ ap'[b].jogo = ap[b].jogo
                                                     /\ ap'[b].lista = PalpitesDo(ap[b].jogo)))
    BY <1>2, <2>4, EfeitoBusca DEF BuscaPalpites
  <2>5. ASSUME NEW a \in Apuracoes, ZeraCupons(a)
        PROVE  NaTransacao(b) /\ ap'[b].jogo = ap[b].jogo /\ ap'[b].lista = ap[b].lista
    BY <1>2, <2>5, EfeitoZera DEF ZeraCupons
  <2>6. ASSUME NEW a \in Apuracoes, NEW r \in Envios, PontuaPalpite(a, r)
        PROVE  NaTransacao(b) /\ ap'[b].jogo = ap[b].jogo /\ ap'[b].lista = ap[b].lista
    BY <1>2, <2>6, EfeitoPontua DEF PontuaPalpite
  <2>7. ASSUME NEW a \in Apuracoes, Confirma(a) \/ Desfaz(a)
        PROVE  NaTransacao(b) /\ ap'[b] = ap[b]
    BY <1>2, <2>7, EfeitoFim
  <2>8. ASSUME NaTransacao(b), ap'[b].jogo = ap[b].jogo,
               ap'[b].lista = ap[b].lista \/ ap'[b].lista = PalpitesDo(ap[b].jogo)
        PROVE  Existe(ap[b].jogo)' /\ \A r \in ap'[b].lista : r \in palpites' /\ Pedido[r].jogo = ap[b].jogo
    <3>1. ap'[b].lista \subseteq PalpitesDo(ap[b].jogo)
      BY <1>0, <2>8 DEF TransacaoIsolada
    <3> HIDE DEF NaTransacao
    <3> QED
      BY <2>8, <3>1, LinhasDaTransacao DEF PalpitesDo
  <2> HIDE DEF NaTransacao, SoMuda
  <2> QED
    BY <2>1, <2>2, <2>3, <2>4, <2>5, <2>6, <2>7, <2>8, PassosDaApuracao DEF Existe
<1>3. ASSUME NEW b \in Apuracoes, NaTransacao(b)'
      PROVE  Existe(ap[b].jogo)' /\ (ap[b].lista)' \subseteq PalpitesDo(ap[b].jogo)'
  BY <1>2, <1>3 DEF PalpitesDo, Existe
<1> QED
  BY <1>1, <1>3 DEF TransacaoIsolada

LEMMA UnicoPalpitePasso ==
  ASSUME IInv, [Next]_vars
  PROVE  UnicoPalpite'
<1>0. UnicoPalpite
  BY DEF IInv
<1>1. ASSUME NEW r \in Envios, InserePalpite(r)  PROVE UnicoPalpite'
  BY <1>0, <1>1 DEF UnicoPalpite, InserePalpite, AceitaPalpite, PalpitesDo, EmailDe
<1>2. ASSUME NEW j \in Jogos, DeletarJogo(j)  PROVE UnicoPalpite'
  BY <1>0, <1>2 DEF UnicoPalpite, DeletarJogo, EmailDe
<1>3. CASE UNCHANGED palpites
  BY <1>0, <1>3 DEF UnicoPalpite, EmailDe
<1> QED
  BY <1>1, <1>2, <1>3, EscrevePalpites

LEMMA AcertosDoJogoPasso ==
  ASSUME IInv, [Next]_vars
  PROVE  AcertosDoJogo'
<1>0. AcertosDoJogo /\ ApuracaoCoerente /\ TransacaoIsolada /\ CupomTemPalpite
  BY DEF IInv
\* The handler after the step, in terms of the tables before it.
<1>1. ASSUME NEW b \in Apuracoes, NaTransacao(b)'
      PROVE  /\ ap'[b].restam \subseteq ap'[b].lista
             /\ \/ ap'[b].acertos = {}
                \/ /\ NaTransacao(b) /\ ap'[b].jogo = ap[b].jogo
                   /\ \A c \in ap'[b].acertos : c[2] \in PalpitesDo(ap[b].jogo)
  <2> USE DEF NaTransacao, SoMuda
  <2>0. NaTransacao(b) => /\ ap[b].restam \subseteq ap[b].lista
                          /\ \A c \in ap[b].acertos : c[2] \in PalpitesDo(ap[b].jogo)
    BY <1>0 DEF AcertosDoJogo
  <2>1. CASE UNCHANGED <<ap, trava>>
    BY <1>1, <2>0, <2>1
  <2>2. CASE \E a \in Apuracoes : RecebeResultado(a)
    BY <1>1, <2>0, <2>2, EfeitoRecebe
  <2>3. CASE \E a \in Apuracoes : AtualizaJogo(a)
    BY <1>1, <2>0, <2>3, EfeitoAtualiza
  <2>4. CASE \E a \in Apuracoes : BuscaPalpites(a)
    BY <1>1, <2>0, <2>4, EfeitoBusca DEF BuscaPalpites
  <2>5. CASE \E a \in Apuracoes : ZeraCupons(a)
    BY <1>1, <2>0, <2>5, EfeitoZera DEF ZeraCupons
  <2>6. ASSUME NEW a \in Apuracoes, NEW r \in Envios, PontuaPalpite(a, r)
        PROVE  /\ NaTransacao(b) /\ ap'[b].jogo = ap[b].jogo
               /\ ap'[b].restam \subseteq ap'[b].lista
               /\ \A c \in ap'[b].acertos : c[2] \in PalpitesDo(ap[b].jogo)
    <3>1. CASE a # b
      BY <1>1, <2>0, <2>6, <3>1, EfeitoPontua
    <3>2. CASE a = b
      <4>1. NaTransacao(b) /\ r \in PalpitesDo(ap[b].jogo) /\ ap[b].jogo \in Jogos
        BY <1>0, <2>0, <2>6, <3>2 DEF PontuaPalpite, TransacaoIsolada, ApuracaoCoerente
      <4>2. \A c \in CuponsDe(EmailDe(r), ap[b].jogo) : c[2] \in PalpitesDo(ap[b].jogo)
        BY <1>0, <4>1 DEF CupomTemPalpite, CuponsDe, CuponsDoJogo, PalpitesDo
      <4>3. \A c \in Premios(b, r) : c[2] \in PalpitesDo(ap[b].jogo)
        BY <4>1, <4>2 DEF Premios, CuponsPremiados
      <4> QED
        BY <2>0, <2>6, <3>2, <4>1, <4>3, EfeitoPontua
    <3> QED
      BY <3>1, <3>2
  <2>7. CASE \E a \in Apuracoes : Confirma(a) \/ Desfaz(a)
    BY <1>1, <2>0, <2>7, EfeitoFim
  <2> HIDE DEF NaTransacao, SoMuda
  <2> QED
    BY <2>1, <2>2, <2>3, <2>4, <2>5, <2>6, <2>7, PassosDaApuracao
<1>2. ASSUME NEW b \in Apuracoes, NaTransacao(b)', NEW c \in ap'[b].acertos
      PROVE  c[2] \in palpites' /\ Pedido[c[2]].jogo = ap'[b].jogo
  <2>1. /\ NaTransacao(b) /\ ap'[b].jogo = ap[b].jogo
        /\ c[2] \in PalpitesDo(ap[b].jogo)
    BY <1>1, <1>2
  <2> QED
    BY <2>1, LinhasDaTransacao DEF PalpitesDo
<1> QED
  BY <1>1, <1>2 DEF AcertosDoJogo, PalpitesDo

LEMMA CupomTemPalpitePasso ==
  ASSUME IInv, [Next]_vars
  PROVE  CupomTemPalpite'
<1> SUFFICES ASSUME NEW j \in Jogos, NEW c \in cupons', Pedido[c[2]].jogo = j, Existe(j)'
             PROVE  c[2] \in palpites'
  BY DEF CupomTemPalpite, CuponsDoJogo, Existe
<1>0. /\ CupomTemPalpite /\ JogoDoPalpite /\ PalpiteDoEnvio
  BY DEF IInv
<1>1. CASE c \in cupons
  <2>1. Existe(j)
    BY <1>0, <1>1, PassoDoJogo DEF JogoDoPalpite
  <2>2. c[2] \in palpites
    BY <1>0, <1>1, <2>1 DEF CupomTemPalpite, CuponsDoJogo
  <2>3. ASSUME NEW k \in Jogos, DeletarJogo(k)  PROVE c[2] \in palpites'
    <3>1. k # j
      BY <2>3 DEF DeletarJogo, Existe, IInv, TypeOK
    <3> QED
      BY <2>2, <2>3, <3>1 DEF DeletarJogo, PalpitesDo
  <2> QED
    BY <2>2, <2>3, EscrevePalpites DEF InserePalpite
<1>2. ASSUME NEW r \in Envios, InsereCupom(r), c \notin cupons
      PROVE  c[2] \in palpites'
  <2>1. c = <<"envio", r>> /\ Existe(Pedido[r].jogo) /\ UNCHANGED palpites
        /\ envio[r] = "insereCupom"
    BY <1>2 DEF InsereCupom, tPalpites
  <2>2. r \in palpites
    BY <1>0, <2>1 DEF PalpiteDoEnvio, DepoisDoPalpite
  <2> QED
    BY <2>1, <2>2
<1>3. ASSUME NEW a \in Apuracoes, Confirma(a), c \notin cupons
      PROVE  c[2] \in palpites'
  BY <1>3 DEF Confirma, IInv, AcertosDoJogo, NaTransacao, PalpitesDo
<1> QED
  BY <1>1, <1>2, <1>3, EscreveCupons

LEMMA ListaCompletaPasso ==
  ASSUME IInv, [Next]_vars
  PROVE  ListaCompleta'
<1> SUFFICES ASSUME NEW b \in Apuracoes, ap'[b].pc \in {"zeraCupons", "pontua"},
                    NEW r \in palpites', Pedido[r].jogo = ap'[b].jogo, pontuacao'[r] # 0
             PROVE  r \in ap'[b].lista
  BY DEF ListaCompleta, PalpitesDo
<1>0. /\ ListaCompleta /\ TransacaoIsolada /\ PalpiteDoEnvio
      /\ palpites \subseteq Envios /\ pontuacao \in [Envios -> {0, 5, 10}]
  BY DEF IInv, TypeOK
<1>e. palpites' \subseteq Envios
  BY TipoPalpites
<1>1. ap'[b].jogo = ap[b].jogo /\ NaTransacao(b)
      /\ \/ ap'[b].lista = ap[b].lista /\ ap[b].pc \in {"zeraCupons", "pontua"}
         \/ ap'[b].lista = PalpitesDo(ap[b].jogo) /\ UNCHANGED banco
  <2> USE DEF NaTransacao, SoMuda
  <2>1. CASE UNCHANGED <<ap, trava>>
    BY <2>1
  <2>2. CASE \E a \in Apuracoes : RecebeResultado(a)
    BY <2>2, EfeitoRecebe
  <2>3. CASE \E a \in Apuracoes : AtualizaJogo(a)
    BY <2>3, EfeitoAtualiza
  <2>4. CASE \E a \in Apuracoes : BuscaPalpites(a)
    BY <2>4, EfeitoBusca DEF BuscaPalpites
  <2>5. CASE \E a \in Apuracoes : ZeraCupons(a)
    BY <2>5, EfeitoZera DEF ZeraCupons
  <2>6. CASE \E a \in Apuracoes, q \in Envios : PontuaPalpite(a, q)
    BY <2>6, EfeitoPontua DEF PontuaPalpite
  <2>7. CASE \E a \in Apuracoes : Confirma(a) \/ Desfaz(a)
    BY <2>7, EfeitoFim
  <2> HIDE DEF NaTransacao, SoMuda
  <2> QED
    BY <2>1, <2>2, <2>3, <2>4, <2>5, <2>6, <2>7, PassosDaApuracao
\* A row with points was there, with points, before the step.
<1>2. r \in palpites
  <2>1. ASSUME NEW q \in Envios, InserePalpite(q), r \notin palpites
        PROVE  pontuacao'[r] = 0
    <3>1. r = q /\ envio[q] = "inserePalpite" /\ UNCHANGED pontuacao
      BY <2>1 DEF InserePalpite
    <3> QED
      BY <1>0, <3>1 DEF PalpiteDoEnvio, AntesDoPalpite
  <2> QED
    BY <2>1, EscrevePalpites DEF DeletarJogo
<1>3. pontuacao[r] # 0
  <2>1. ASSUME NEW a \in Apuracoes, Confirma(a)  PROVE pontuacao[r] # 0
    <3>1. NaTransacao(a) /\ a # b
      <4>1. ap'[a].pc \in {"ok", "falha"}
        BY <2>1, EfeitoFim
      <4> QED
        BY <2>1, <4>1 DEF Confirma, NaTransacao
    <3>2. ap[a].jogo # ap[b].jogo
      BY <1>0, <1>1, <3>1, LinhasDaTransacao
    <3>3. r \notin ap[a].lista
      BY <1>0, <1>1, <3>1, <3>2 DEF TransacaoIsolada, PalpitesDo
    <3>4. pontuacao'[r] = PontosApurados(a, r)
      BY <1>0, <1>2, <2>1 DEF Confirma
    <3> QED
      BY <3>3, <3>4 DEF PontosApurados
  <2> QED
    BY <2>1, EscrevePontuacao
<1> QED
  BY <1>0, <1>1, <1>2, <1>3 DEF ListaCompleta, PalpitesDo

LEMMA PontuacaoDoPlacarVigentePasso ==
  ASSUME IInv, [Next]_vars
  PROVE  PontuacaoDoPlacarVigente'
<1> SUFFICES ASSUME NEW r \in palpites', pontuacao'[r] # 0, NEW j, j = Pedido[r].jogo
             PROVE  /\ jogo'[j].placar # Nulo
                    /\ pontuacao'[r] = CalcularPontos(Pedido[r].placar, jogo'[j].placar)
  BY DEF PontuacaoDoPlacarVigente
<1>0. /\ PontuacaoDoPlacarVigente /\ PalpiteDoEnvio /\ JogoDoPalpite /\ ListaCompleta
      /\ TransacaoIsolada /\ ApuracaoCoerente
      /\ palpites \subseteq Envios /\ palpites' \subseteq Envios
  BY TipoPalpites DEF IInv, TypeOK
<1>j. j \in Jogos
  BY <1>0, PedidosAssumption
<1>1. ASSUME NEW a \in Apuracoes, Confirma(a)
      PROVE  /\ jogo'[j].placar # Nulo
             /\ pontuacao'[r] = CalcularPontos(Pedido[r].placar, jogo'[j].placar)
  <2>1. /\ NaTransacao(a) /\ ap[a].pc = "pontua" /\ UNCHANGED palpites
        /\ pontuacao'[r] = PontosApurados(a, r)
        /\ jogo' = [jogo EXCEPT ![ap[a].jogo] = ComResultado(jogo[ap[a].jogo], ap[a].placar)]
    BY <1>0, <1>1 DEF Confirma, NaTransacao
  <2>2. ap[a].placar \in Placar /\ jogo \in [Jogos -> LinhaJogo]
    BY <1>0, <2>1 DEF ApuracaoCoerente, IInv, TypeOK
  <2>3. CASE j = ap[a].jogo
    <3>1. jogo'[j].placar = ap[a].placar
      BY <1>j, <2>1, <2>2, <2>3 DEF ComResultado, LinhaJogo
    <3>2. r \in ap[a].lista
      BY <1>0, <2>1, <2>3 DEF PontosApurados, ListaCompleta, PalpitesDo
    <3> QED
      BY <2>1, <2>2, <3>1, <3>2, NuloAssumption DEF PontosApurados
  <2>4. CASE j # ap[a].jogo
    <3>1. r \notin ap[a].lista
      BY <1>0, <2>1, <2>4 DEF TransacaoIsolada, PalpitesDo
    <3>2. pontuacao'[r] = pontuacao[r]
      BY <2>1, <3>1 DEF PontosApurados
    <3> QED
      BY <1>0, <1>j, <2>1, <2>2, <2>4, <3>2 DEF PontuacaoDoPlacarVigente
  <2> QED
    BY <2>3, <2>4
<1>2. ASSUME UNCHANGED pontuacao, \A a \in Apuracoes : ~Confirma(a)
      PROVE  /\ jogo'[j].placar # Nulo
             /\ pontuacao'[r] = CalcularPontos(Pedido[r].placar, jogo'[j].placar)
  <2>1. r \in palpites
    <3>1. ASSUME NEW q \in Envios, InserePalpite(q), r \notin palpites  PROVE FALSE
      <4>1. r = q /\ envio[q] = "inserePalpite"
        BY <3>1 DEF InserePalpite
      <4> QED
        BY <1>0, <1>2, <4>1 DEF PalpiteDoEnvio, AntesDoPalpite
    <3> QED
      BY <3>1, EscrevePalpites DEF DeletarJogo
  <2>2. ~DeletarJogo(j)
    BY <2>1 DEF DeletarJogo, PalpitesDo
  <2>3. jogo'[j].placar = jogo[j].placar
    BY <1>0, <1>j, <1>2, <2>1, <2>2, PassoDoJogo DEF JogoDoPalpite, Existe
  <2> QED
    BY <1>0, <1>2, <2>1, <2>3 DEF PontuacaoDoPlacarVigente
<1> QED
  BY <1>1, <1>2, EscrevePontuacao

-----------------------------------------------------------------------------
LEMMA InitIInv ==
  ASSUME Init
  PROVE  IInv
<1>1. ConfigPadrao \in Config /\ 0 \in 0..Fim
  BY AdminAssumption, LimitesAssumption
<1>2. TypeOK
  <2>1. \A a \in Apuracoes : Encerrada("novo") \in Apuracao
    BY EncerradaTipo
  <2>2. Participacao(ConfigPadrao) \in Tipo
    BY <1>1 DEF Participacao, Tipo, Config
  <2> QED
    BY <1>1, <2>1, <2>2
    DEF Init, TypeOK, LinhaJogo, StatusDoJogo, Salvamento
<1>3. /\ Validado /\ JogoDoPalpite /\ StatusCoerente /\ PalpiteDoEnvio /\ UnicoPalpite
      /\ CupomTemPalpite /\ PontuacaoDoPlacarVigente
  BY DEF Init, Validado, JogoDoPalpite, StatusCoerente, PalpiteDoEnvio, UnicoPalpite,
    CupomTemPalpite, PontuacaoDoPlacarVigente, DepoisDoPalpite, CuponsDoJogo
<1>4. \A a \in Apuracoes : /\ ap[a].pc = "novo"
                           /\ ap[a].lista = {} /\ ap[a].restam = {} /\ ap[a].acertos = {}
  BY EncerradaTipo DEF Init
<1>5. ApuracaoCoerente /\ TransacaoIsolada /\ AcertosDoJogo /\ ListaCompleta
  BY <1>4, NuloAssumption
  DEF Init, ApuracaoCoerente, TransacaoIsolada, AcertosDoJogo, ListaCompleta, NaTransacao
<1> QED
  BY <1>2, <1>3, <1>5 DEF IInv

LEMMA PassoIInv ==
  ASSUME IInv, [Next]_vars
  PROVE  IInv'
BY TypeOKPasso, ValidadoPasso, ApuracaoCoerentePasso, TransacaoIsoladaPasso,
   StatusCoerentePasso, PalpiteDoEnvioPasso, JogoDoPalpitePasso, UnicoPalpitePasso,
   AcertosDoJogoPasso, CupomTemPalpitePasso, ListaCompletaPasso,
   PontuacaoDoPlacarVigentePasso
DEF IInv

\* The inductive invariant holds in every reachable state.
THEOREM Invariante == Spec => []IInv
<1>1. Init => IInv
  BY InitIInv
<1>2. IInv /\ [Next]_vars => IInv'
  BY PassoIInv
<1> QED
  BY <1>1, <1>2, PTL DEF Spec

\* Types: in particular every stored guess and score is in the range of the
\* checks of palpites.rs:38 and admin.rs:131.
THEOREM Tipos == Spec => []TypeOK
<1>1. IInv => TypeOK
  BY DEF IInv
<1> QED
  BY <1>1, Invariante, PTL

\* The columns `ativo`, `status` and the score of a game never disagree,
\* whatever the administrators do.
THEOREM StatusSempreCoerente == Spec => []StatusCoerente
<1>1. IInv => StatusCoerente
  BY DEF IInv
<1> QED
  BY <1>1, Invariante, PTL

\* The home, the list of open games and the refusal of guesses never disagree on
\* whether a game is open, whatever the administrators and the clock do.
THEOREM AbertosSempreCoerentes == Spec => []AbertosCoerentes
<1>1. StatusCoerente => AbertosCoerentes
  BY DEF StatusCoerente, AbertosCoerentes, EstaEncerrado, JogosAbertos, Aberto
<1> QED
  BY <1>1, StatusSempreCoerente, PTL

\* One guess per player and game, for any number of requests in flight.
THEOREM UmPalpitePorJogador == Spec => []UnicoPalpite
<1>1. IInv => UnicoPalpite
  BY DEF IInv
<1> QED
  BY <1>1, Invariante, PTL

\* Every coupon of a game is backed by a guess in it.
THEOREM CuponsTemPalpite == Spec => []CupomTemPalpite
<1>1. IInv => CupomTemPalpite
  BY DEF IInv
<1> QED
  BY <1>1, Invariante, PTL

\* No deletion or other result slips between the statements of a result
\* transaction (admin.rs:144-221).
THEOREM TransacoesIsoladas == Spec => []TransacaoIsolada
<1>1. IInv => TransacaoIsolada
  BY DEF IInv
<1> QED
  BY <1>1, Invariante, PTL

\* Points always come from the score the game shows, through any number of
\* corrections, late guesses and rolled back results.
THEOREM PontosDoPlacarVigente == Spec => []PontuacaoDoPlacarVigente
<1>1. IInv => PontuacaoDoPlacarVigente
  BY DEF IInv
<1> QED
  BY <1>1, Invariante, PTL

=============================================================================
