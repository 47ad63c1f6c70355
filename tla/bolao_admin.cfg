CONSTANTS
  ana = ana  bia = bia  telA = telA  telB = telB
  txtAna = txtAna  txtANA = txtANA  txtBia = txtBia  semArroba = semArroba
  numA = numA  numB = numB  curto = curto
  j1 = j1  j2 = j2  Nulo = Nulo
  Emails = {ana, bia}
  Telefones = {telA, telB}
  Enderecos = {txtAna, txtANA, txtBia, semArroba}
  Numeros = {numA, numB, curto}
  ValidarEmail <- MCValidarEmail
  SomenteDigitos <- MCSomenteDigitos
  Envios = {1, 2, 3}
  Pedido <- PedidosAdmin
  Apuracoes = {a1}
  Salvamentos = {s1}
  Jogos = {j1, j2}
  Placares <- PlacarUnico
  Datas = {0, 1}
  Configs <- Promocao
  ConfigPadrao <- Padrao
  Fim = 1
  MaxEnvios = 1
  MaxBaixas = 1
CHECK_DEADLOCK FALSE
SPECIFICATION Spec
INVARIANTS IInvPremios StatusCoerente AbertosCoerentes
PROPERTY SoAtivarReabre
