SPECIFICATION MCSpec
CONSTANTS
  Clientes = {c1}
  Buscas = {b1, b2}
  Cap = 1
  MaxEscritas = 3
  Falhas = {"aviso", "conexao", "busca"}
  MaxHistorico = 5
  MaxVoltas = 2
  Jogos = {a, b}
  Placares = {zero}
  Zero = zero
  Fetches = {f1, f2}
  MaxCliques = 2
  Nulo = Nulo
INVARIANTS TypeOK AvisoNaoSePerde ExibeOAvisado
  IInvModais VoltarFechaModal VoltarSaiDaPagina IInvPainel PlacarDaTela DesvioPassa
PROPERTIES AvisoViraPedido PaginaNaoSaiSozinha CupomFicaNaTela
CHECK_DEADLOCK FALSE
