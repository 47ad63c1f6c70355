---------------------------- MODULE MCNavegador ----------------------------
(* One tab of a browser: the page of the ranking with the server behind it, *)
(* the home page with its modals, or the administrators' panel.             *)
(*                                                                          *)
(* The scripts of a page die with it, so a behaviour stays on the page it   *)
(* begins with and what belongs to the others keeps its first value.  The   *)
(* ranking runs against a channel that retains a single message, so that    *)
(* the receiver lags, and with two fetches, that answer out of order.       *)
EXTENDS RankingAoVivo, Modais, Painel

VARIABLE aba  \* the page of the tab

MCvars == <<vars, varsModais, varsPainel, aba>>

MCInit ==
  /\ aba \in {"ranking", "inicio", "painel"}
  /\ Init /\ InitModais /\ InitPainel
  /\ aba # "inicio" => pessoa = "calma"
  /\ aba # "painel" => vinculado = Nulo

NoRanking == aba = "ranking" /\ Next /\ UNCHANGED <<varsModais, varsPainel, aba>>
NoInicio == aba = "inicio" /\ NextModais /\ UNCHANGED <<vars, varsPainel, aba>>
NoPainel == aba = "painel" /\ NextPainel /\ UNCHANGED <<vars, varsModais, aba>>

MCNext == NoRanking \/ NoInicio \/ NoPainel

\* Of the three pages only that of the ranking is under an obligation, see
\* `Justica`.
MCSpec == MCInit /\ [][MCNext]_MCvars /\ Justica

=============================================================================
