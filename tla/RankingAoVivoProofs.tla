------------------------ MODULE RankingAoVivoProofs ------------------------
(* AvisoNaoSePerde and ExibeOAvisado for any number of pages, fetches and   *)
(* writes, any capacity of the channel and any combination of failures.     *)
EXTENDS RankingAoVivo, TLAPS

\* Initially nothing was sent, nobody is connected and nothing is shown.
LEMMA Inicio == Init => IInv
BY ConstantesAssumption
   DEF Init, IInv, TypeOK, PendenteOuPedida, RecenteTrazPedida, Conexoes, Etapas, Aberta

\* What a fetch does to the page, whoever made it.
LEMMA PedeMantem ==
  ASSUME IInv, NEW c \in Clientes, NEW i \in Buscas, Pede(c, i), UNCHANGED versao
  PROVE  /\ busca' \in [Clientes -> [Buscas -> Etapas]]
         /\ lida' \in [Clientes -> [Buscas -> 0..versao']]
         /\ recente' \in [Clientes -> Buscas]
         /\ exibida' \in [Clientes -> 0..versao']
         /\ exibeRecente' \in [Clientes -> BOOLEAN]
         /\ pedida' \in [Clientes -> 0..versao']
         /\ \A d \in Clientes : pedida'[d] >= pedida[d]
         /\ pedida'[c] = versao
         /\ RecenteTrazPedida'
BY DEF IInv, TypeOK, RecenteTrazPedida, Pede, Etapas

\* The server alone.
LEMMA ServidorMantem ==
  ASSUME IInv, Escreve \/ Avisa \/ Abandona
  PROVE  IInv'
<1>1. CASE Escreve
  BY <1>1, ConstantesAssumption DEF IInv, TypeOK, PendenteOuPedida, RecenteTrazPedida,
     Escreve, canal, pagina, Aberta
<1>2. CASE Avisa
  BY <1>2 DEF IInv, TypeOK, PendenteOuPedida, RecenteTrazPedida, Avisa, pagina, Aberta
<1>3. CASE Abandona
  BY <1>3 DEF IInv, TypeOK, PendenteOuPedida, RecenteTrazPedida, Abandona, canal, pagina, Aberta
<1> QED BY <1>1, <1>2, <1>3

\* The connection of one page; a lag still leaves an event on its way.
LEMMA ConexaoMantem ==
  ASSUME IInv, NEW c \in Clientes, Assina(c) \/ Cai(c) \/ Fecha(c) \/ Puxa(c)
  PROVE  IInv'
<1> USE DEF IInv, TypeOK, PendenteOuPedida, RecenteTrazPedida, servidor, pagina, Aberta,
            Conexoes
<1>1. CASE Assina(c)
  BY <1>1 DEF Assina, DaCauda
<1>2. CASE Cai(c)
  BY <1>2 DEF Cai
<1>3. CASE Fecha(c)
  BY <1>3 DEF Fecha
<1>4. CASE Puxa(c)
  <2>1. proximo' \in [Clientes -> Nat] /\ \A d \in Clientes : proximo'[d] <= enviados'
    BY <1>4, ConstantesAssumption DEF Puxa, Atrasado
  <2>2. aCaminho' \in [Clientes -> Nat] /\ aCaminho'[c] > 0
    BY <1>4 DEF Puxa
  <2> QED BY <1>4, <2>1, <2>2 DEF Puxa
<1> QED BY <1>1, <1>2, <1>3, <1>4

\* The steps of one page that make a fetch.
LEMMA PedidoMantem ==
  ASSUME IInv, NEW c \in Clientes, Carrega(c) \/ Recebe(c) \/ Navega(c)
  PROVE  IInv'
<1>1. PICK i \in Buscas : Pede(c, i)
  BY DEF Carrega, Recebe, Navega
<1>2. UNCHANGED servidor /\ UNCHANGED avisada /\ UNCHANGED proximo
  BY DEF Carrega, Recebe, Navega, servidor, canal
<1>3. /\ conexao' \in [Clientes -> Conexoes]
      /\ aCaminho' \in [Clientes -> Nat]
      /\ \A d \in Clientes : (Aberta(d))' => Aberta(d)
      /\ \A d \in Clientes \ {c} : aCaminho'[d] = aCaminho[d]
  <2> USE DEF IInv, TypeOK, Conexoes, Aberta
  <2>1. CASE Carrega(c) BY <2>1 DEF Carrega
  <2>2. CASE Recebe(c) BY <2>2 DEF Recebe
  <2>3. CASE Navega(c) BY <2>3 DEF Navega, canal
  <2> QED BY <2>1, <2>2, <2>3
<1>4. TypeOK'
  BY <1>1, <1>2, <1>3, PedeMantem DEF IInv, TypeOK, servidor
<1>5. PendenteOuPedida'
  <2> SUFFICES ASSUME NEW d \in Clientes, (Aberta(d))', pedida'[d] < avisada'[d]
               PROVE  proximo'[d] < enviados' \/ aCaminho'[d] > 0
    BY DEF PendenteOuPedida
  <2>1. d # c
    BY <1>1, <1>2, PedeMantem DEF IInv, TypeOK, servidor
  <2>2. pedida[d] < avisada[d]
    BY <1>1, <1>2, PedeMantem, <1>4 DEF IInv, TypeOK, servidor
  <2> QED BY <1>2, <1>3, <2>1, <2>2 DEF IInv, PendenteOuPedida, servidor
<1>6. RecenteTrazPedida'
  BY <1>1, <1>2, PedeMantem DEF servidor
<1> QED BY <1>4, <1>5, <1>6 DEF IInv

\* The answers: the database is read after the fetch was made.
LEMMA RespostaMantem ==
  ASSUME IInv, NEW c \in Clientes, NEW i \in Buscas, Le(c, i) \/ Termina(c, i)
  PROVE  IInv'
<1> USE DEF IInv, TypeOK, PendenteOuPedida, RecenteTrazPedida, servidor, canal, Aberta, Etapas
<1>1. CASE Le(c, i)
  BY <1>1 DEF Le, Consulta
<1>2. CASE Exibe(c, i)
  <2>1. exibida'[c] = lida[c][i] /\ busca[c][i] = "lida" /\ busca'[c][i] = "livre"
    BY <1>2 DEF Exibe
  <2>2. exibeRecente' \in [Clientes -> BOOLEAN] /\ (exibeRecente'[c] <=> i = recente[c])
    BY <1>2, Zenon DEF Exibe
  <2>3. TypeOK'
    BY <1>2, <2>2 DEF Exibe
  <2>4. PendenteOuPedida'
    BY <1>2 DEF Exibe
  <2>5. RecenteTrazPedida'
    <3>1. ASSUME NEW d \in Clientes, d # c
          PROVE  /\ exibeRecente'[d] = exibeRecente[d] /\ exibida'[d] = exibida[d]
                 /\ busca'[d] = busca[d] /\ lida'[d] = lida[d]
      BY <1>2, <3>1 DEF Exibe
    <3>2. exibeRecente'[c] => exibida'[c] >= pedida'[c]
      BY <1>2, <2>1, <2>2 DEF Exibe
    <3>3. busca'[c][recente'[c]] = "lida" => lida'[c][recente'[c]] >= pedida'[c]
      BY <1>2, <2>1 DEF Exibe
    <3> QED BY <1>2, <3>1, <3>2, <3>3 DEF Exibe
  <2> QED BY <2>3, <2>4, <2>5
<1>3. CASE FalhaBusca(c, i)
  BY <1>3 DEF FalhaBusca
<1> QED BY <1>1, <1>2, <1>3 DEF Termina

\* Type correctness and the two parts of the strengthening, in every state.
THEOREM Invariante == Spec => []IInv
<1>1. IInv /\ [Next]_vars => IInv'
  <2> SUFFICES ASSUME IInv, [Next]_vars PROVE IInv'
    OBVIOUS
  <2>1. CASE Escreve \/ Avisa \/ Abandona
    BY <2>1, ServidorMantem
  <2>2. ASSUME NEW c \in Clientes, Assina(c) \/ Cai(c) \/ Fecha(c) \/ Puxa(c)
        PROVE  IInv'
    BY <2>2, ConexaoMantem
  <2>3. ASSUME NEW c \in Clientes, Carrega(c) \/ Recebe(c) \/ Navega(c)
        PROVE  IInv'
    BY <2>3, PedidoMantem
  <2>4. ASSUME NEW c \in Clientes, NEW i \in Buscas, Le(c, i) \/ Termina(c, i)
        PROVE  IInv'
    BY <2>4, RespostaMantem
  <2>5. CASE UNCHANGED vars
    BY <2>5 DEF vars, servidor, canal, pagina, IInv, TypeOK, PendenteOuPedida,
       RecenteTrazPedida, Aberta
  <2> QED BY <2>1, <2>2, <2>3, <2>4, <2>5 DEF Next
<1> QED BY <1>1, Inicio, PTL DEF Spec

\* sse.rs:16-19: a page that has handled every notice of its connection has
\* asked for the ranking since the last one was sent, lags included.
THEOREM NenhumAvisoSePerde == Spec => []AvisoNaoSePerde
<1>1. IInv => AvisoNaoSePerde
  <2> SUFFICES ASSUME IInv, NEW c \in Clientes, EmDia(c)
               PROVE  pedida[c] >= avisada[c]
    BY DEF AvisoNaoSePerde
  <2>1. ~(pedida[c] < avisada[c])
    <3>1. ~(proximo[c] < enviados) /\ ~(aCaminho[c] > 0)
      BY DEF IInv, TypeOK, EmDia
    <3> QED BY <3>1 DEF IInv, PendenteOuPedida, EmDia
  <2> QED BY <2>1 DEF IInv, TypeOK
<1> QED BY <1>1, Invariante, PTL

\* ranking-sse.js:89-111: such a page, showing the answer of its last fetch,
\* shows every write announced to it.
THEOREM MostraOAvisado == Spec => []ExibeOAvisado
<1>1. IInv => ExibeOAvisado
  BY DEF IInv, TypeOK, PendenteOuPedida, RecenteTrazPedida, ExibeOAvisado, EmDia, Aberta
<1> QED BY <1>1, Invariante, PTL

\* A receiver never runs ahead of the channel, and no page shows or was told
\* of a version that is not committed.
THEOREM TiposDoRanking == Spec => []TypeOK
<1>1. IInv => TypeOK
  BY DEF IInv
<1> QED BY <1>1, Invariante, PTL

=============================================================================
