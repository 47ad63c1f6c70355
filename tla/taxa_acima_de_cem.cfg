CONSTANTS
  Limite = 0
  Jogadores = {p1}
  Jogos = {j1, j2}
  Nomes = {1, 2}
  Buscas <- TudoOuUmNome
  Palpites <- UmPalpite
  Resultados <- UmAZeroEDoisAZero
  NoPodio = 2
  NaFinal = 2
  PorPagina = 2
  MaxPalpites = 2
  MaxUsos = 0
  Nulo = Nulo
  ip1 = ip1  ip2 = ip2
  Chamadas = {0}
  Ips = {ip1, ip2}
  IpDe <- MCIpDe
  MaxPorJanela = 2
  Janela = 3
  Atraso = 1
  UltimoInstante = 0
CHECK_DEADLOCK FALSE
SPECIFICATION MCSpec
INVARIANT TaxaEhPercentual
