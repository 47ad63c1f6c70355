CONSTANTS
  ana = ana  bia = bia  telA = telA  telB = telB
  txtAna = txtAna  txtANA = txtANA  txtBia = txtBia  semArroba = semArroba
  numA = numA  numB = numB  curto = curto
  j1 = j1  j2 = j2  Nulo = Nulo
  Emails = {ana, bia}
  Telefones = {telA, telB}
  Enderecos = {txtAna, txtANA, txtBia, semArroba}
  Numeros = {numA, numB, curto}
  ValidarEmail <- MCValidarEmail
  SomenteDigitos <- MCSomenteDigitos
  Envios = {1, 2, 3, 4, 5}
  Pedido <- PedidosCorrida
  Apuracoes = {a1}
  Salvamentos = {}
  Jogos = {j1}
  Placares <- PlacarUnico
  Datas = {1}
  Configs = {}
  ConfigPadrao <- Padrao
  Fim = 1
  MaxEnvios = 2
  MaxBaixas = 0
CHECK_DEADLOCK FALSE
SPECIFICATION Spec
INVARIANT UmCupomPorPalpite
