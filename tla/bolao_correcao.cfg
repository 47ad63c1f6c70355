CONSTANTS
  ana = ana  bia = bia  telA = telA  telB = telB
  txtAna = txtAna  txtANA = txtANA  txtBia = txtBia  semArroba = semArroba
  numA = numA  numB = numB  curto = curto
  j1 = j1  j2 = j2  Nulo = Nulo
  Emails = {ana, bia}
  Telefones = {telA, telB}
  Enderecos = {txtAna, txtANA, txtBia, semArroba}
  Numeros = {numA, numB, curto}
  ValidarEmail <- MCValidarEmail
  SomenteDigitos <- MCSomenteDigitos
  Envios = {1, 2}
  Pedido <- PedidosCorrecao
  Apuracoes = {a1, a2}
  Salvamentos = {s1}
  Jogos = {j1}
  Placares <- PlacarECorrecao
  Datas = {1}
  Configs <- Promocao
  ConfigPadrao <- Padrao
  Fim = 0
  MaxEnvios = 2
  MaxBaixas = 0
CHECK_DEADLOCK FALSE
SPECIFICATION Spec
SYMMETRY Simetria
INVARIANTS PontuacaoDoPlacarVigente AcertoSseDez AcertoUniforme
