------------------------------- MODULE Modais -------------------------------
(* The home page in one tab: the modals of the guess form and of its        *)
(* coupon, the script that makes the Back button close them, and the form   *)
(* whose answer opens the second one.                                       *)
(*                                                                          *)
(* An action is one task of the browser.  What a task only asks for arrives *)
(* as another task: the timer of `agendarSincronizar`, a traversal of the   *)
(* history with its `popstate`, the answer of the fetch.                    *)
EXTENDS Integers, Sequences

CONSTANTS
  MaxHistorico, \* bound: entries of the page in the history of the tab
  MaxVoltas     \* bound: traversals waiting when a person presses a button

VARIABLES
  abertos,      \* the modals without the attribute `hidden`
  empurrado,    \* estadoEmpurrado: an entry was pushed for them
  agendado,     \* the timer is set
  historico,    \* the entries of this page: whether their state is ours
  atual,        \* the current one; 0 when the person has left the page
  travessias,   \* traversals asked for and not yet made
  envio,        \* the submission of the form: its fetch, or "livre"
  pessoa        \* how the person behaves, see `Age`

varsModais == <<abertos, empurrado, agendado, historico, atual, travessias, envio, pessoa>>

Modal == {"palpite", "sucesso"}
NaPagina == atual > 0
Assentado == ~agendado /\ travessias = <<>>

\* A person in a hurry clicks and presses at any moment.  A calm one does when
\* the page has done what it still had to do: a timer of 0 ms and a step of the
\* history.  A patient one moreover waits for the answer of a submission and
\* leaves Forward alone.
Age == NaPagina /\ (Assentado \/ pessoa = "apressada")

-----------------------------------------------------------------------------
(* The modals; each change of `hidden` is seen by the observer.             *)

Mostra(novos) == abertos' = novos /\ agendado' = TRUE

\* A click on "Participar".
AbreFormulario ==
  /\ Age /\ abertos = {} /\ atual < MaxHistorico
  /\ Mostra({"palpite"})
  /\ UNCHANGED <<empurrado, historico, atual, travessias, envio, pessoa>>

\* The X of a modal, or a click outside the form.
FechaModal(m) ==
  /\ Age /\ m \in abertos
  /\ pessoa = "paciente" => envio = "livre"
  /\ Mostra(abertos \ {m})
  /\ UNCHANGED <<empurrado, historico, atual, travessias, envio, pessoa>>

\* The submit button is disabled from here to the answer.
Envia ==
  /\ Age /\ "palpite" \in abertos /\ envio = "livre"
  /\ envio' = "enviado"
  /\ UNCHANGED <<abertos, empurrado, agendado, historico, atual, travessias, pessoa>>

\* Mutant: the history is brought in step as soon as the form is closed.
RegistradoSemEsperar ==
  /\ NaPagina /\ envio = "enviado" /\ atual < MaxHistorico
  /\ Mostra({"sucesso"})
  /\ travessias' = IF empurrado THEN Append(travessias, "script") ELSE travessias
  /\ empurrado' = FALSE
  /\ envio' = "livre"
  /\ UNCHANGED <<historico, atual, pessoa>>

\* The guess is registered: the form is closed and the coupon shown.
Registrado ==
  /\ NaPagina /\ envio = "enviado" /\ atual < MaxHistorico
  /\ Mostra((abertos \ {"palpite"}) \cup {"sucesso"})
  /\ envio' = "livre"
  /\ UNCHANGED <<empurrado, historico, atual, travessias, pessoa>>

\* A refusal or no connection: a message in the form, the button again.
Recusado ==
  /\ NaPagina /\ envio = "enviado"
  /\ envio' = "livre"
  /\ UNCHANGED <<abertos, empurrado, agendado, historico, atual, travessias, pessoa>>

-----------------------------------------------------------------------------
(* The history.                                                             *)

\* Mutant: replaceState.
Substitui ==
  /\ abertos # {} /\ ~empurrado
  /\ historico' = [historico EXCEPT ![atual] = TRUE]
  /\ UNCHANGED <<atual, travessias>>

\* pushState drops the entries ahead of the current one.
Empurra ==
  /\ abertos # {} /\ ~empurrado
  /\ historico' = Append(SubSeq(historico, 1, atual), TRUE)
  /\ atual' = atual + 1
  /\ UNCHANGED travessias

\* Mutant: the flag is reset and the entry stays.
DesfazSoAMarca ==
  /\ abertos = {} /\ empurrado
  /\ UNCHANGED <<historico, atual, travessias>>

\* Mutant: with no modal there is always an entry to undo.
DesfazSempre ==
  /\ abertos = {}
  /\ travessias' = Append(travessias, "script")
  /\ UNCHANGED <<historico, atual>>

Desfaz ==
  /\ abertos = {} /\ empurrado
  /\ travessias' = IF historico[atual] THEN Append(travessias, "script") ELSE travessias
  /\ UNCHANGED <<historico, atual>>

JaSincronizado ==
  /\ abertos # {} <=> empurrado
  /\ UNCHANGED <<historico, atual, travessias>>

\* The timer fires.
Sincroniza ==
  /\ NaPagina /\ agendado
  /\ agendado' = FALSE
  /\ empurrado' = (abertos # {})
  /\ Empurra \/ Desfaz \/ JaSincronizado
  /\ UNCHANGED <<abertos, envio, pessoa>>

\* The person presses Back, or Forward where there is an entry to go to.
Aperta(botao) ==
  /\ Age /\ Len(travessias) < MaxVoltas
  /\ pessoa = "paciente" => botao = "voltar" /\ envio = "livre"
  /\ botao = "avancar" => atual < Len(historico)
  /\ travessias' = Append(travessias, botao)
  /\ UNCHANGED <<abertos, empurrado, agendado, historico, atual, envio, pessoa>>

\* Mutant: popstate hides the modals and forgets the flag.
AoVoltarSemMarca ==
  /\ abertos' = {}
  /\ agendado' = (agendado \/ abertos # {})
  /\ UNCHANGED empurrado

\* popstate: the visible modals are hidden.
AoVoltar ==
  IF abertos # {} THEN Mostra({}) /\ empurrado' = FALSE
  ELSE UNCHANGED <<abertos, agendado, empurrado>>

\* A traversal is made: out of the page, to another entry of it, or nowhere.
Atravessa ==
  /\ NaPagina /\ travessias # <<>>
  /\ LET alvo == atual + (IF Head(travessias) = "avancar" THEN 1 ELSE -1) IN
     IF alvo \in 1..Len(historico) THEN atual' = alvo /\ AoVoltar
     ELSE /\ atual' = IF alvo = 0 THEN 0 ELSE atual
          /\ UNCHANGED <<abertos, agendado, empurrado>>
  /\ travessias' = Tail(travessias)
  /\ UNCHANGED <<historico, envio, pessoa>>

-----------------------------------------------------------------------------
InitModais ==
  /\ abertos = {} /\ empurrado = FALSE /\ agendado = FALSE
  /\ historico = <<FALSE>> /\ atual = 1
  /\ travessias = <<>>
  /\ envio = "livre"
  /\ pessoa \in {"apressada", "calma", "paciente"}

NextModais ==
  \/ AbreFormulario \/ (\E m \in Modal : FechaModal(m))
  \/ Envia \/ Registrado \/ Recusado
  \/ Sincroniza \/ Atravessa
  \/ \E botao \in {"voltar", "avancar"} : Aperta(botao)

SpecModais == InitModais /\ [][NextModais]_varsModais

-----------------------------------------------------------------------------
\* The types; the current entry exists, and the one the page was loaded with is
\* never turned into an entry of a modal.
TypeOKModais ==
  /\ abertos \subseteq Modal
  /\ empurrado \in BOOLEAN /\ agendado \in BOOLEAN
  /\ historico \in Seq(BOOLEAN) /\ atual \in 0..Len(historico)
  /\ historico # <<>> /\ ~historico[1]
  /\ travessias \in Seq({"script", "voltar", "avancar"})
  /\ envio \in {"livre", "enviado"}
  /\ pessoa \in {"apressada", "calma", "paciente"}

\* Back "fecha o modal aberto, em vez de sair da página" (modal-historico.js:3):
\* whenever nothing is under way a visible modal has an entry of its own to
\* give up, also when the coupon took the place of the form during a Back; and
\* no flag of a closed modal is left to keep the next one from pushing.
VoltarFechaModal ==
  NaPagina /\ Assentado =>
    /\ abertos = {} => ~empurrado
    /\ pessoa # "apressada" /\ abertos # {} => historico[atual]

\* The traversals of the script never take a person who is not in a hurry off
\* the page: only a Back of theirs does (modal-historico.js:44).
PaginaNaoSaiSozinha ==
  [][atual # 0 /\ atual' = 0 /\ pessoa # "apressada" => Head(travessias) = "voltar"]_varsModais

\* "Para que o próximo Voltar saia normalmente" (modal-historico.js:12): for a
\* patient person no entry of a closed modal is left under the page.
VoltarSaiDaPagina ==
  NaPagina /\ Assentado /\ pessoa = "paciente" /\ abertos = {} => ~historico[atual]

\* A patient person loses the modal with the coupon only by closing it or by
\* pressing Back: undoing the entry of the form does not take it along.
CupomFicaNaTela ==
  [][pessoa = "paciente" /\ "sucesso" \in abertos \ abertos' =>
       FechaModal("sucesso") \/ travessias = <<"voltar">>]_varsModais

-----------------------------------------------------------------------------
(* The inductive invariant.                                                 *)

\* Without a timer the flag says whether a modal is visible.
MarcaCoerente == ~agendado => (empurrado <=> abertos # {})

\* While the person is not in a hurry, one traversal waits at a time, and what
\* the flag and the script's traversal stand for is the current entry.
EmOrdem ==
  NaPagina /\ pessoa # "apressada" =>
    /\ Len(travessias) <= 1
    /\ abertos = {} /\ empurrado => agendado /\ travessias = <<>>
    /\ empurrado \/ travessias = <<"script">> => historico[atual]

\* For a patient person only the current entry can be that of a modal, and the
\* script has given it up only when no modal is visible.
SoUmaEntrada ==
  NaPagina /\ pessoa = "paciente" =>
    /\ \A k \in 1..(atual - 1) : ~historico[k]
    /\ historico[atual] => empurrado \/ travessias = <<"script">>
    /\ travessias \in {<<>>, <<"script">>, <<"voltar">>}
    /\ travessias = <<"script">> => abertos = {}
    /\ envio = "enviado" => abertos # {} /\ travessias = <<>>

IInvModais == TypeOKModais /\ MarcaCoerente /\ EmOrdem /\ SoUmaEntrada

=============================================================================
