---------------------------- MODULE ModaisProofs ----------------------------
(* Proofs about the modals of the home page and the history of the tab, for *)
(* any number of entries and of traversals waiting.                         *)
EXTENDS Modais, SequenceTheorems, TLAPS

Travessia == {"script", "voltar", "avancar"}
Perfil == {"apressada", "calma", "paciente"}

-----------------------------------------------------------------------------
(* Sequences.                                                               *)

\* What follows nothing is alone.
LEMMA Sozinha ==
  ASSUME NEW S, NEW e \in S
  PROVE  /\ Append(<<>>, e) = <<e>>
         /\ Len(<<e>>) = 1 /\ Head(<<e>>) = e /\ <<e>> # <<>>
  OBVIOUS

\* A sequence of at most one element is that element, and loses it.
LEMMA Retira ==
  ASSUME NEW S, NEW s \in Seq(S), s # <<>>, Len(s) <= 1
  PROVE  Tail(s) = <<>> /\ s = <<Head(s)>>
<1>1. Len(s) = 1
  <2>1. Len(s) \in Nat \ {0}
    BY EmptySeq, Zenon
  <2> QED
    BY <2>1
<1>2. Tail(s) = <<>>
  <2>1. Tail(s) \in Seq(S) /\ Len(Tail(s)) = Len(s) - 1
    BY HeadTailProperties, Zenon
  <2>2. Tail(s) # <<>> => Len(Tail(s)) \in Nat \ {0}
    BY <2>1, EmptySeq, Zenon
  <2> QED
    BY <1>1, <2>1, <2>2
<1>3. s = <<Head(s)>>
  <2>1. <<Head(s)>> \in Seq(S)
    BY HeadTailProperties
  <2> QED
    BY <1>1, <2>1, SeqEqual
<1> QED
  BY <1>2, <1>3

\* pushState: the entries up to the current one stay, and ours follows.
LEMMA Empilha ==
  ASSUME NEW h \in Seq(BOOLEAN), NEW n \in 1..Len(h)
  PROVE  LET g == Append(SubSeq(h, 1, n), TRUE) IN
         /\ g \in Seq(BOOLEAN) /\ Len(g) = n + 1
         /\ \A k \in 1..n : g[k] = h[k]
         /\ g[n + 1] = TRUE
  OBVIOUS

-----------------------------------------------------------------------------
(* The types.                                                               *)

\* Every step keeps the types, and the entry the page was loaded with.
LEMMA PassoTipos == TypeOKModais /\ [NextModais]_varsModais => TypeOKModais'
<1> SUFFICES ASSUME TypeOKModais, [NextModais]_varsModais PROVE TypeOKModais'
  OBVIOUS
<1> USE DEF TypeOKModais, Modal
<1>1. CASE AbreFormulario
  BY <1>1 DEF AbreFormulario, Mostra
<1>2. ASSUME NEW m \in Modal, FechaModal(m) PROVE TypeOKModais'
  BY <1>2 DEF FechaModal, Mostra
<1>3. CASE Envia
  BY <1>3 DEF Envia
<1>4. CASE Registrado
  BY <1>4 DEF Registrado, Mostra
<1>5. CASE Recusado
  BY <1>5 DEF Recusado
<1>6. CASE Sincroniza
  <2>1. CASE Empurra
    <3>1. atual \in 1..Len(historico)
      BY <1>6 DEF Sincroniza, NaPagina
    <3>2. historico' \in Seq(BOOLEAN) /\ Len(historico') = atual + 1
          /\ historico'[1] = historico[1]
      <4> DEFINE g == Append(SubSeq(historico, 1, atual), TRUE)
      <4>1. /\ g \in Seq(BOOLEAN) /\ Len(g) = atual + 1
            /\ \A k \in 1..atual : g[k] = historico[k]
        BY <3>1, Empilha
      <4>2. historico' = g
        BY <2>1 DEF Empurra
      <4> QED
        BY <3>1, <4>1, <4>2
    <3>3. historico' # <<>>
      BY <3>1, <3>2, EmptySeq
    <3>4. atual' \in 0..Len(historico')
      BY <2>1, <3>1, <3>2 DEF Empurra
    <3> QED
      BY <1>6, <2>1, <3>2, <3>3, <3>4 DEF Sincroniza, Empurra
  <2>2. CASE Desfaz
    BY <1>6, <2>2, AppendProperties DEF Sincroniza, Desfaz
  <2>3. CASE JaSincronizado
    BY <1>6, <2>3 DEF Sincroniza, JaSincronizado
  <2> QED
    BY <1>6, <2>1, <2>2, <2>3 DEF Sincroniza
<1>7. CASE Atravessa
  <2>1. travessias' \in Seq(Travessia)
    BY <1>7, HeadTailProperties DEF Atravessa, Travessia
  <2>2. atual' \in 0..Len(historico')
    BY <1>7, LenProperties DEF Atravessa, NaPagina
  <2> QED
    BY <1>7, <2>1, <2>2 DEF Atravessa, AoVoltar, Mostra, Travessia
<1>8. ASSUME NEW botao \in {"voltar", "avancar"}, Aperta(botao) PROVE TypeOKModais'
  BY <1>8, AppendProperties DEF Aperta
<1>9. CASE UNCHANGED varsModais
  BY <1>9 DEF varsModais
<1> QED
  BY <1>1, <1>2, <1>3, <1>4, <1>5, <1>6, <1>7, <1>8, <1>9 DEF NextModais

\* The flag agrees with the modals unless a timer is set.
LEMMA PassoMarca == TypeOKModais /\ MarcaCoerente /\ [NextModais]_varsModais => MarcaCoerente'
<1> SUFFICES ASSUME TypeOKModais, MarcaCoerente, [NextModais]_varsModais PROVE MarcaCoerente'
  OBVIOUS
<1> USE DEF MarcaCoerente
<1>1. CASE AbreFormulario \/ Registrado
  BY <1>1 DEF AbreFormulario, Registrado, Mostra
<1>2. ASSUME NEW m \in Modal, FechaModal(m) PROVE MarcaCoerente'
  BY <1>2 DEF FechaModal, Mostra
<1>3. CASE Envia \/ Recusado
  BY <1>3 DEF Envia, Recusado
<1>4. CASE Sincroniza
  BY <1>4 DEF Sincroniza
<1>5. CASE Atravessa
  BY <1>5 DEF Atravessa, AoVoltar, Mostra
<1>6. ASSUME NEW botao \in {"voltar", "avancar"}, Aperta(botao) PROVE MarcaCoerente'
  BY <1>6 DEF Aperta
<1>7. CASE UNCHANGED varsModais
  BY <1>7 DEF varsModais
<1> QED
  BY <1>1, <1>2, <1>3, <1>4, <1>5, <1>6, <1>7 DEF NextModais

-----------------------------------------------------------------------------
(* Where the entries of the modals are.                                     *)

\* While the person is not in a hurry, the traversals come one at a time.
LEMMA PassoOrdem == TypeOKModais /\ MarcaCoerente /\ EmOrdem /\ [NextModais]_varsModais => EmOrdem'
<1> SUFFICES ASSUME TypeOKModais, MarcaCoerente, EmOrdem, [NextModais]_varsModais,
                    NaPagina', pessoa' # "apressada"
             PROVE  /\ (Len(travessias) <= 1)'
                    /\ (abertos = {} /\ empurrado => agendado /\ travessias = <<>>)'
                    /\ (empurrado \/ travessias = <<"script">> => historico[atual])'
  BY DEF EmOrdem
<1> DEFINE Meta == /\ (Len(travessias) <= 1)'
                   /\ (abertos = {} /\ empurrado => agendado /\ travessias = <<>>)'
                   /\ (empurrado \/ travessias = <<"script">> => historico[atual])'
<1>0. NaPagina /\ pessoa # "apressada"
  BY DEF NextModais, varsModais, AbreFormulario, FechaModal, Envia, Registrado, Recusado, Sincroniza,
         Atravessa, Aperta, Age, NaPagina
<1>a. /\ Len(travessias) <= 1
      /\ abertos = {} /\ empurrado => agendado /\ travessias = <<>>
      /\ empurrado \/ travessias = <<"script">> => historico[atual]
  BY <1>0 DEF EmOrdem
<1>1. CASE AbreFormulario
  BY <1>0, <1>a, <1>1 DEF AbreFormulario, Mostra, Age, Assentado
<1>2. ASSUME NEW m \in Modal, FechaModal(m) PROVE Meta
  BY <1>0, <1>a, <1>2 DEF FechaModal, Mostra, Age, Assentado
<1>3. CASE Registrado
  BY <1>a, <1>3 DEF Registrado, Mostra
<1>4. CASE Envia \/ Recusado
  BY <1>a, <1>4 DEF Envia, Recusado
<1>5. CASE Sincroniza
  <2>1. CASE Empurra
    <3>1. atual \in 1..Len(historico)
      BY <1>0 DEF TypeOKModais, NaPagina
    <3> DEFINE g == Append(SubSeq(historico, 1, atual), TRUE)
    <3>2. g[atual + 1] = TRUE
      BY <3>1, Empilha DEF TypeOKModais
    <3>3. historico' = g /\ atual' = atual + 1 /\ travessias' = travessias
      BY <2>1 DEF Empurra
    <3>4. historico'[atual'] = TRUE
      BY <3>2, <3>3
    <3>5. ~(abertos' = {} /\ empurrado')
      BY <1>5 DEF Sincroniza
    <3> QED
      BY <1>a, <3>3, <3>4, <3>5
  <2>2. CASE Desfaz
    <3>1. travessias = <<>> /\ historico[atual]
      BY <1>a, <2>2 DEF Desfaz
    <3>2. travessias' = Append(<<>>, "script") /\ historico'[atual'] = historico[atual]
      BY <2>2, <3>1 DEF Desfaz
    <3>3. Len(travessias') = 1
      BY <3>2
    <3>4. ~empurrado'
      BY <1>5, <2>2 DEF Sincroniza, Desfaz
    <3> QED
      BY <3>1, <3>2, <3>3, <3>4
  <2>3. CASE JaSincronizado
    BY <1>5, <1>a, <2>3 DEF Sincroniza, JaSincronizado, TypeOKModais
  <2> QED
    BY <1>5, <2>1, <2>2, <2>3 DEF Sincroniza
<1>6. CASE Atravessa
  <2>1. travessias # <<>> /\ travessias' = Tail(travessias) /\ historico' = historico
    BY <1>6 DEF Atravessa
  <2>2. travessias' = <<>> /\ Len(travessias') <= 1
    <3>1. Tail(travessias) = <<>>
      BY <1>a, <2>1, Retira DEF TypeOKModais
    <3> QED
      BY <2>1, <3>1, EmptySeq
  <2>3. abertos = {} => ~empurrado
    BY <1>a, <2>1
  <2>4. CASE AoVoltar
    BY <2>2, <2>3, <2>4, Sozinha DEF AoVoltar
  <2>5. CASE atual' = atual /\ UNCHANGED <<abertos, agendado, empurrado>>
    BY <1>a, <2>1, <2>2, <2>3, <2>5, Sozinha
  <2> QED
    BY <1>6, <2>4, <2>5 DEF Atravessa, NaPagina
<1>7. ASSUME NEW botao \in {"voltar", "avancar"}, Aperta(botao) PROVE Meta
  <2>1. travessias = <<>> /\ ~agendado
    BY <1>0, <1>7 DEF Aperta, Age, Assentado
  <2>2. travessias' = <<botao>>
    BY <1>7, <2>1, Sozinha DEF Aperta
  <2>3. Len(travessias') <= 1 /\ travessias' # <<"script">>
    BY <2>2
  <2>4. ~(abertos = {} /\ empurrado)
    BY <2>1 DEF MarcaCoerente
  <2> QED
    BY <1>7, <1>a, <2>3, <2>4 DEF Aperta
<1>8. CASE UNCHANGED varsModais
  BY <1>a, <1>8 DEF varsModais
<1> QED
  BY <1>1, <1>2, <1>3, <1>4, <1>5, <1>6, <1>7, <1>8 DEF NextModais

\* For a patient person there is one entry of a modal at most.
LEMMA PassoUmaEntrada ==
  TypeOKModais /\ MarcaCoerente /\ EmOrdem /\ SoUmaEntrada /\ [NextModais]_varsModais => SoUmaEntrada'
<1> DEFINE Meta == /\ \A k \in 1..(atual - 1) : ~historico[k]
                   /\ historico[atual] => empurrado \/ travessias = <<"script">>
                   /\ travessias \in {<<>>, <<"script">>, <<"voltar">>}
                   /\ travessias = <<"script">> => abertos = {}
                   /\ envio = "enviado" => abertos # {} /\ travessias = <<>>
<1> SUFFICES ASSUME TypeOKModais, MarcaCoerente, EmOrdem, SoUmaEntrada, [NextModais]_varsModais,
                    NaPagina', pessoa' = "paciente"
             PROVE  Meta'
  BY DEF SoUmaEntrada
<1>0. NaPagina /\ pessoa = "paciente"
  BY DEF NextModais, varsModais, AbreFormulario, FechaModal, Envia, Registrado, Recusado, Sincroniza,
         Atravessa, Aperta, Age, NaPagina
<1>a. Meta
  BY <1>0 DEF SoUmaEntrada
<1>1. CASE AbreFormulario
  BY <1>0, <1>a, <1>1, Sozinha DEF AbreFormulario, Mostra, Age, Assentado
<1>2. ASSUME NEW m \in Modal, FechaModal(m) PROVE Meta'
  BY <1>0, <1>a, <1>2, Sozinha DEF FechaModal, Mostra, Age, Assentado
<1>3. CASE Envia
  BY <1>0, <1>a, <1>3 DEF Envia, Age, Assentado
<1>4. CASE Registrado
  BY <1>a, <1>4, Sozinha DEF Registrado, Mostra
<1>5. CASE Recusado
  BY <1>a, <1>5 DEF Recusado
<1>6. CASE Sincroniza
  <2>1. CASE Empurra
    <3>1. atual \in 1..Len(historico)
      BY <1>0 DEF TypeOKModais, NaPagina
    <3> DEFINE g == Append(SubSeq(historico, 1, atual), TRUE)
    <3>2. \A k \in 1..atual : g[k] = historico[k]
      BY <3>1, Empilha DEF TypeOKModais
    <3>3. historico' = g /\ atual' = atual + 1 /\ travessias' = travessias
      BY <2>1 DEF Empurra
    <3>4. ~historico[atual]
      BY <1>a, <2>1 DEF Empurra
    <3>5. \A k \in 1..(atual' - 1) : ~historico'[k]
      BY <1>a, <3>1, <3>2, <3>3, <3>4
    <3>6. empurrado' /\ abertos' # {} /\ abertos' = abertos /\ envio' = envio
      BY <1>6, <2>1 DEF Sincroniza, Empurra
    <3> QED
      BY <1>a, <3>3, <3>5, <3>6
  <2>2. CASE Desfaz
    <3>1. travessias = <<>> /\ historico[atual]
      BY <1>0, <2>2 DEF Desfaz, EmOrdem
    <3>2. travessias' = <<"script">> /\ historico' = historico /\ atual' = atual
      BY <2>2, <3>1, Sozinha DEF Desfaz
    <3>3. abertos' = {} /\ envio' # "enviado"
      BY <1>6, <1>a, <2>2 DEF Sincroniza, Desfaz
    <3> QED
      BY <1>a, <3>2, <3>3
  <2>3. CASE JaSincronizado
    BY <1>6, <1>a, <2>3 DEF Sincroniza, JaSincronizado, TypeOKModais
  <2> QED
    BY <1>6, <2>1, <2>2, <2>3 DEF Sincroniza
<1>7. CASE Atravessa
  <2>1. travessias # <<>> /\ travessias' = Tail(travessias) /\ historico' = historico
        /\ envio' = envio
    BY <1>7 DEF Atravessa
  <2>2. travessias' = <<>> /\ travessias' # <<"script">>
    <3>1. Len(travessias) <= 1
      BY <1>0 DEF EmOrdem
    <3>2. Tail(travessias) = <<>>
      BY <2>1, <3>1, Retira DEF TypeOKModais
    <3> QED
      BY <2>1, <3>2, Sozinha
  <2>3. Head(travessias) # "avancar"
    BY <1>a, <2>1, Sozinha
  <2>4. atual' = atual - 1
    BY <1>7, <2>3 DEF Atravessa, TypeOKModais, NaPagina
  <2>5. ~historico[atual - 1] /\ \A k \in 1..(atual - 2) : ~historico[k]
    BY <1>a, <2>4 DEF TypeOKModais, NaPagina
  <2>6. envio' # "enviado"
    BY <1>a, <2>1
  <2> QED
    BY <2>1, <2>2, <2>4, <2>5, <2>6 DEF TypeOKModais
<1>8. ASSUME NEW botao \in {"voltar", "avancar"}, Aperta(botao) PROVE Meta'
  <2>1. travessias = <<>> /\ botao = "voltar" /\ envio = "livre"
    BY <1>0, <1>8 DEF Aperta, Age, Assentado
  <2>2. travessias' = <<"voltar">> /\ travessias' # <<"script">>
    BY <1>8, <2>1, Sozinha DEF Aperta
  <2>3. historico[atual] => empurrado
    BY <1>a, <2>1, Sozinha
  <2> QED
    BY <1>8, <1>a, <2>1, <2>2, <2>3 DEF Aperta
<1>9. CASE UNCHANGED varsModais
  BY <1>a, <1>9 DEF varsModais
<1> QED
  BY <1>1, <1>2, <1>3, <1>4, <1>5, <1>6, <1>7, <1>8, <1>9 DEF NextModais

-----------------------------------------------------------------------------
(* The theorems.                                                            *)

\* The inductive invariant: types, flag, one traversal at a time and one entry.
THEOREM Invariante == SpecModais => []IInvModais
<1>1. InitModais => IInvModais
  <2> SUFFICES ASSUME InitModais PROVE IInvModais
    OBVIOUS
  <2>1. TypeOKModais
    <3>1. <<FALSE>> \in Seq(BOOLEAN) /\ <<FALSE>> # <<>> /\ Len(<<FALSE>>) = 1 /\ ~<<FALSE>>[1]
      OBVIOUS
    <3>2. 1 \in 0..Len(<<FALSE>>)
      BY <3>1
    <3>3. <<>> \in Seq({"script", "voltar", "avancar"})
      OBVIOUS
    <3> QED
      BY <3>1, <3>2, <3>3, Zenon DEF InitModais, TypeOKModais
  <2>2. MarcaCoerente /\ EmOrdem /\ SoUmaEntrada
    BY Sozinha DEF InitModais, MarcaCoerente, EmOrdem, SoUmaEntrada
  <2> QED
    BY <2>1, <2>2 DEF IInvModais
<1>2. IInvModais /\ [NextModais]_varsModais => IInvModais'
  BY PassoTipos, PassoMarca, PassoOrdem, PassoUmaEntrada DEF IInvModais
<1> QED
  BY <1>1, <1>2, PTL DEF SpecModais

\* The state of the script and of the history has its types at any time, and
\* the entry the page was loaded with is never one of a modal.
THEOREM TiposDosModais == SpecModais => []TypeOKModais
<1>1. IInvModais => TypeOKModais
  BY DEF IInvModais
<1> QED
  BY <1>1, Invariante, PTL

\* Whenever nothing is under way, a modal that a person who is not in a hurry
\* sees has its entry, and a closed one has left no flag: Back closes it.
THEOREM VoltarSempreFechaModal == SpecModais => []VoltarFechaModal
<1>1. IInvModais => VoltarFechaModal
  BY DEF IInvModais, VoltarFechaModal, MarcaCoerente, EmOrdem, Assentado
<1> QED
  BY <1>1, Invariante, PTL

\* With the modals closed and nothing under way, the current entry of a patient
\* person is not one of a modal: the next Back leaves.
THEOREM VoltarSempreSai == SpecModais => []VoltarSaiDaPagina
<1>1. IInvModais => VoltarSaiDaPagina
  BY Sozinha DEF IInvModais, VoltarSaiDaPagina, MarcaCoerente, SoUmaEntrada, Assentado
<1> QED
  BY <1>1, Invariante, PTL

\* The traversal the script asks for ends on the page it is made on, unless the
\* person is in a hurry.
THEOREM SoVoltarSai == SpecModais => PaginaNaoSaiSozinha
<1>1. IInvModais /\ [NextModais]_varsModais
        => [atual # 0 /\ atual' = 0 /\ pessoa # "apressada" => Head(travessias) = "voltar"]_varsModais
  <2> SUFFICES ASSUME IInvModais, [NextModais]_varsModais, atual # 0, atual' = 0, pessoa # "apressada"
               PROVE  Head(travessias) = "voltar"
    OBVIOUS
  <2>0. TypeOKModais /\ NaPagina
    BY DEF IInvModais, TypeOKModais, NaPagina
  <2>1. Atravessa
    <3>0. atual \in Nat \ {0}
      BY <2>0 DEF TypeOKModais, NaPagina
    <3>1. CASE Sincroniza
      <4>1. atual' = atual + 1 \/ atual' = atual
        BY <3>1 DEF Sincroniza, Empurra, Desfaz, JaSincronizado
      <4> QED
        BY <3>0, <4>1
    <3> QED
      BY <3>1 DEF NextModais, varsModais, AbreFormulario, FechaModal, Envia, Registrado, Recusado, Aperta
  <2>2. travessias # <<>> /\ Head(travessias) \in Travessia
    BY <2>0, <2>1, HeadTailProperties DEF Atravessa, TypeOKModais, Travessia
  <2>3. Head(travessias) # "avancar"
    BY <2>0, <2>1 DEF Atravessa, TypeOKModais, NaPagina
  <2>4. ASSUME Head(travessias) = "script" PROVE FALSE
    <3>1. Len(travessias) <= 1
      BY <2>0 DEF IInvModais, EmOrdem
    <3>2. travessias = <<Head(travessias)>>
      BY <2>0, <2>2, <3>1, Retira DEF TypeOKModais
    <3>3. historico[atual]
      BY <2>0, <2>4, <3>2 DEF IInvModais, EmOrdem
    <3>4. atual \in 2..Len(historico)
      BY <2>0, <3>3 DEF TypeOKModais, NaPagina
    <3> QED
      BY <2>0, <2>1, <2>4, <3>4 DEF Atravessa, TypeOKModais
  <2> QED
    BY <2>2, <2>3, <2>4 DEF Travessia
<1> QED
  BY <1>1, Invariante, PTL DEF SpecModais, PaginaNaoSaiSozinha

\* A patient person sees the coupon until a click or a Back of theirs.
THEOREM CupomSempreFica == SpecModais => CupomFicaNaTela
<1>1. IInvModais /\ [NextModais]_varsModais
        => [pessoa = "paciente" /\ "sucesso" \in abertos \ abertos' =>
              FechaModal("sucesso") \/ travessias = <<"voltar">>]_varsModais
  <2> SUFFICES ASSUME IInvModais, [NextModais]_varsModais, pessoa = "paciente", "sucesso" \in abertos \ abertos'
               PROVE  FechaModal("sucesso") \/ travessias = <<"voltar">>
    OBVIOUS
  <2>1. Atravessa \/ \E m \in Modal : FechaModal(m)
    BY DEF NextModais, varsModais, AbreFormulario, Envia, Registrado, Recusado, Sincroniza, Aperta, Mostra
  <2>2. ASSUME NEW m \in Modal, FechaModal(m) PROVE FechaModal("sucesso")
    BY <2>2 DEF FechaModal, Mostra, Modal
  <2>3. CASE Atravessa
    BY <2>3, Sozinha DEF IInvModais, SoUmaEntrada, Atravessa
  <2> QED
    BY <2>1, <2>2, <2>3
<1> QED
  BY <1>1, Invariante, PTL DEF SpecModais, CupomFicaNaTela

=============================================================================
