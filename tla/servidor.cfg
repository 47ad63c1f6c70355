CONSTANTS
  Limite = 4
  Jogadores = {p1, p2, p3}
  Jogos = {j1, j2}
  Nomes = {1, 2}
  Buscas <- TudoOuUmNome
  Palpites <- UmPalpite
  Resultados <- UmAZeroEDoisAZero
  NoPodio = 2
  NaFinal = 2
  PorPagina = 2
  MaxPalpites = 3
  MaxUsos = 3
  Nulo = Nulo
  ip1 = ip1  ip2 = ip2
  Chamadas = {0, 1, 2, 3, 4, 5}
  Ips = {ip1, ip2}
  IpDe <- MCIpDe
  MaxPorJanela = 2
  Janela = 3
  Atraso = 1
  UltimoInstante = 5
SYMMETRY Simetria
CHECK_DEADLOCK FALSE
SPECIFICATION MCSpec
INVARIANTS IInv ConformeRegra PaginasParticionam PaginaOferecidaExiste DesempateEstavel
  ClassificacoesConcordam PodioConcorda
  TypeOKLimitador Espera LimitePorJanela RegistrosLimitados
PROPERTIES CorrecaoDeUmGol NegaComMotivo
